---- MODULE Spec2Model ----
(***************************************************************************)
(* Memory management of the xv6 kernel: the per-core physical frame        *)
(* allocator with reference counts (kernel/kalloc.c), the three-level      *)
(* page tables with copy-on-write fork and the mmap region list            *)
(* (kernel/vm.c, kernel/vm.h).                                             *)
(*                                                                         *)
(* Physical memory is an array of frames, every frame an array of NPTE     *)
(* words.  A page-table page, a data page and a page on a free list are    *)
(* all frames of that one array, as in the kernel: a page-table entry is   *)
(* the integer ppn * 1024 + flags, the link of a free page is its word 0.  *)
(***************************************************************************)
EXTENDS Integers, Sequences, FiniteSets, TLC

\* ------------------------------------------------------------ sizes
PGSIZE == 4096
\* entries of one page-table page (512 in the kernel) and words of a frame
NPTE == 2
\* managed frames: physical addresses PGSIZE .. NFRAMES * PGSIZE
NFRAMES == 11
\* frames the kernel takes while it boots and keeps (its own page table, the
\* kernel stacks)
BootPages == 4
NCPU == 3
NPROCS == 2
\* width of the kernel's uint (32 in the kernel)
UintBits == 16

UintMod == 2 ^ UintBits
Frames == 1 .. NFRAMES
CPUs == 0 .. (NCPU - 1)
Procs == 1 .. NPROCS
Idx == 0 .. (NPTE - 1)

\* first address after the kernel and end of physical memory
end == PGSIZE
PHYSTOP == (NFRAMES + 1) * PGSIZE
\* one beyond the highest virtual address of the three-level tree
MAXVA == NPTE * NPTE * NPTE * PGSIZE

PTE_V == 1
PTE_R == 2
PTE_W == 4
PTE_X == 8
PTE_U == 16
PTE_D == 128
PTE_COW == 256

\* what memset(pa, 5, PGSIZE) and memset(pa, '\xD', PGSIZE) leave in a word
JUNK_ALLOC == 84215045
JUNK_FREE == 218959117

\* ------------------------------------------------------------ bits
HasBit(x, b) == (x \div b) % 2 = 1
SetBit(x, b) == IF HasBit(x, b) THEN x ELSE x + b
ClearBit(x, b) == IF HasBit(x, b) THEN x - b ELSE x

PGROUNDDOWN(a) == (a \div PGSIZE) * PGSIZE
PGROUNDUP(a) == ((a + PGSIZE - 1) \div PGSIZE) * PGSIZE
PA2PTE(pa) == (pa \div PGSIZE) * 1024
PTE2PA(pte) == (pte \div 1024) * PGSIZE
PTE_FLAGS(pte) == pte % 1024
PX(level, va) == ((va \div PGSIZE) \div (NPTE ^ level)) % NPTE

\* frame number of a physical address inside the managed range
FN(pa) == pa \div PGSIZE
Managed(pa) == pa % PGSIZE = 0 /\ pa >= end /\ pa < PHYSTOP

VARIABLES
  mem,             \* physical memory: frame -> word index -> word
  page_refcounts,  \* kalloc.c page_refcounts[]
  kmem,            \* kalloc.c kmem[cpu].freelist: physical address or 0
  pagetable,       \* proc -> p->pagetable (physical address, 0: none)
  sz,              \* proc -> p->sz
  panicked,        \* "" or the message of the panic that stopped the kernel
  nextpid,         \* the next process id (proc.c allocpid)
  ncalls,          \* the mmap calls, page faults and direct calls made so far
  vmas,            \* vm.c vmas[]
  vma_list,        \* proc -> p->vma_list
  fref,            \* file -> its reference count
  wlog,            \* the writei calls of the last step
  last,            \* the call made by the last step and its result
  held,            \* the pages kernel code has from kalloc for its own use
  kcore,           \* core -> where it is in kalloc or kfree, with i, pa and result
  klock,           \* core -> the core that holds kmem[core].lock, -1 when free
  sawempty,        \* core -> every pool was empty at some instant of its kalloc
  bcache,          \* bio.c bcache: buf[], the list of each bucket, the spinlocks
  bio,             \* process -> where it is in bread or brelse, with its locals
  nic,             \* e1000.c: the rings, tx_mbufs, rx_mbufs, the registers, the device
  pp               \* user/pingpong.c: parent, child, their pipe and what they printed

vars ==
  <<mem, page_refcounts, kmem, pagetable, sz, panicked, nextpid, ncalls, vmas, vma_list, fref,
    wlog, last, held, kcore, klock, sawempty, bcache, bio, nic, pp>>

\* The kernel state the functions below transform.
Cur ==
  [mem |-> mem, ref |-> page_refcounts, kmem |-> kmem, pagetable |-> pagetable,
   sz |-> sz, pan |-> panicked, vmas |-> vmas, vma_list |-> vma_list, fref |-> fref,
   wlog |-> <<>>]

Panic(k, msg) == IF k.pan = "" THEN [k EXCEPT !.pan = msg] ELSE k

\* A load or store through a pointer that is no frame of physical memory:
\* the kernel's behaviour is undefined from here on.
WILD == "undefined: wild pointer"

ZeroPage == [i \in Idx |-> 0]
JunkPage(w) == [i \in Idx |-> w]

\* the core a process runs on, and the value its stores write
mycpu(p) == (p - 1) % NCPU
DataOf(p) == 2 * p

\* the open files of a process: p->ofile[fd] with its readable and writable flags;
\* file 1 is open for reading and writing, 2 for reading, 3 for writing only
Files == {1, 2, 3}
FileReadable(fd) == IF fd = 3 THEN 0 ELSE 1
FileWritable(fd) == IF fd = 2 THEN 0 ELSE 1

\* ------------------------------------------------------------ kalloc.c
\* kunchecked_free: push pa on the free list of cpu_core.
kunchecked_free(k, cpu_core, pa) ==
  [k EXCEPT !.mem[FN(pa)][0] = k.kmem[cpu_core],
            !.kmem[cpu_core] = pa]

\* a kfree that returns the page to the list of core 0, as kinit does
kfree_to_first_core(k, cpu, pa) ==
  IF k.pan # "" THEN k
  ELSE IF ~Managed(pa) THEN Panic(k, "kfree")
  ELSE IF (k.ref[FN(pa)] + UintMod - 1) % UintMod > 0
    THEN [k EXCEPT !.ref[FN(pa)] = (@ + UintMod - 1) % UintMod]
  ELSE kunchecked_free([k EXCEPT !.ref[FN(pa)] = (@ + UintMod - 1) % UintMod,
                                 !.mem[FN(pa)] = JunkPage(JUNK_FREE)],
                       0, pa)

\* kfree: drop one reference, free the page when none is left.
kfree(k, cpu, pa) ==
  IF k.pan # "" THEN k
  ELSE IF ~Managed(pa) THEN Panic(k, "kfree")
  ELSE IF (k.ref[FN(pa)] + UintMod - 1) % UintMod > 0
    THEN [k EXCEPT !.ref[FN(pa)] = (@ + UintMod - 1) % UintMod]
  ELSE kunchecked_free([k EXCEPT !.ref[FN(pa)] = (@ + UintMod - 1) % UintMod,
                                 !.mem[FN(pa)] = JunkPage(JUNK_FREE)],
                       cpu, pa)

\* kalloc, the scan from core i on: [k, pa], pa = 0 when no list has a page.
RECURSIVE kalloc_scan(_, _, _)
kalloc_scan(k, i, left) ==
  IF left = 0 THEN [k |-> k, pa |-> 0]
  ELSE IF k.kmem[i] = 0
    THEN kalloc_scan(k, IF i + 1 = NCPU THEN 0 ELSE i + 1, left - 1)
  ELSE IF ~Managed(k.kmem[i]) THEN [k |-> Panic(k, WILD), pa |-> 0]
  ELSE [k |-> [k EXCEPT !.kmem[i] = k.mem[FN(k.kmem[i])][0],
                        !.ref[FN(k.kmem[i])] = 1,
                        !.mem[FN(k.kmem[i])] = JunkPage(JUNK_ALLOC)],
        pa |-> k.kmem[i]]

kalloc(k, cpu) ==
  IF k.pan # "" THEN [k |-> k, pa |-> 0] ELSE kalloc_scan(k, cpu, NCPU)

\* kcopyonwrite, once kalloc has answered with a = [k, pa]
kcopyonwrite_copy(a, pa) ==
  IF a.pa = 0 THEN a
  ELSE [k |-> [a.k EXCEPT !.mem[FN(a.pa)] = a.k.mem[FN(pa)]], pa |-> a.pa]

\* kcopyonwrite: [k, pa]; pa is the page to write to, 0 when out of memory.
kcopyonwrite(k, cpu, pa) ==
  IF k.pan # "" THEN [k |-> k, pa |-> 0]
  ELSE IF ~Managed(pa) THEN [k |-> Panic(k, "kcopyonwrite"), pa |-> 0]
  ELSE IF (k.ref[FN(pa)] + UintMod - 1) % UintMod = 0
    THEN [k |-> [k EXCEPT !.ref[FN(pa)] = 1], pa |-> pa]
  ELSE kcopyonwrite_copy(
         kalloc([k EXCEPT !.ref[FN(pa)] = (@ + UintMod - 1) % UintMod], cpu), pa)

kincrementrefcount(k, pa) ==
  IF k.pan # "" THEN k
  ELSE IF ~Managed(pa) THEN Panic(k, WILD)
  ELSE [k EXCEPT !.ref[FN(pa)] = (k.ref[FN(pa)] + 1) % UintMod]

\* kinit: every page goes to the list of core 0, lowest address first.
RECURSIVE kinit_loop(_, _)
kinit_loop(k, p) ==
  IF p + PGSIZE <= PHYSTOP THEN kinit_loop(kunchecked_free(k, 0, p), p + PGSIZE)
  ELSE k

\* ------------------------------------------------------------ vm.c: page tables
\* A pointer to a page-table entry: the table page and the index in it.
NULLPTE == [pa |-> 0, i |-> 0]
PteAt(pa, i) == [pa |-> pa, i |-> i]
\* *pte
Deref(k, pte) == k.mem[FN(pte.pa)][pte.i]
\* *pte = v
SetPte(k, pte, v) == [k EXCEPT !.mem[FN(pte.pa)][pte.i] = v]

\* walk, from the table page pt of the given level down to level 0.
RECURSIVE walk_level(_, _, _, _, _, _)
RECURSIVE walk_alloc(_, _, _, _, _, _)
\* a walk that links the new table page without the memset
walk_alloc_no_memset(a, cpu, pte, va, alloc, level) ==
  IF a.pa = 0 THEN [k |-> a.k, pte |-> NULLPTE]
  ELSE walk_level(SetPte(a.k, pte, PA2PTE(a.pa) + PTE_V), cpu, a.pa, va, alloc, level - 1)

\* the entry pte of this level is not valid and kalloc has answered with a
walk_alloc(a, cpu, pte, va, alloc, level) ==
  IF a.pa = 0 THEN [k |-> a.k, pte |-> NULLPTE]
  ELSE walk_level(
         SetPte([a.k EXCEPT !.mem[FN(a.pa)] = ZeroPage], pte, PA2PTE(a.pa) + PTE_V),
         cpu, a.pa, va, alloc, level - 1)

walk_level(k, cpu, pt, va, alloc, level) ==
  IF ~Managed(pt) THEN [k |-> Panic(k, WILD), pte |-> NULLPTE]
  ELSE IF level = 0 THEN [k |-> k, pte |-> PteAt(pt, PX(0, va))]
  ELSE IF HasBit(Deref(k, PteAt(pt, PX(level, va))), PTE_V)
    THEN walk_level(k, cpu, PTE2PA(Deref(k, PteAt(pt, PX(level, va)))), va, alloc,
                    level - 1)
  ELSE IF alloc = 0 THEN [k |-> k, pte |-> NULLPTE]
  ELSE walk_alloc(kalloc(k, cpu), cpu, PteAt(pt, PX(level, va)), va, alloc, level)

walk(k, cpu, pt, va, alloc) ==
  IF k.pan # "" THEN [k |-> k, pte |-> NULLPTE]
  ELSE IF va >= MAXVA THEN [k |-> Panic(k, "walk"), pte |-> NULLPTE]
  ELSE walk_level(k, cpu, pt, va, alloc, 2)

\* mappages: [k, r], r = 0 or -1.
RECURSIVE mappages_loop(_, _, _, _, _, _, _)
RECURSIVE mappages_pte(_, _, _, _, _, _, _)
\* one turn of the loop, once walk has answered with w = [k, pte]
mappages_pte(w, cpu, pt, a, lastpg, pa, perm) ==
  IF w.k.pan # "" THEN [k |-> w.k, r |-> -1]
  ELSE IF w.pte = NULLPTE THEN [k |-> w.k, r |-> -1]
  ELSE IF HasBit(Deref(w.k, w.pte), PTE_V)
    THEN [k |-> Panic(w.k, "mappages: remap"), r |-> -1]
  ELSE IF a = lastpg
    THEN [k |-> SetPte(w.k, w.pte, PA2PTE(pa) + SetBit(perm, PTE_V)), r |-> 0]
  ELSE mappages_loop(SetPte(w.k, w.pte, PA2PTE(pa) + SetBit(perm, PTE_V)), cpu, pt,
                     a + PGSIZE, lastpg, pa + PGSIZE, perm)

mappages_loop(k, cpu, pt, a, lastpg, pa, perm) ==
  mappages_pte(walk(k, cpu, pt, a, 1), cpu, pt, a, lastpg, pa, perm)

mappages(k, cpu, pt, va, size, pa, perm) ==
  IF k.pan # "" THEN [k |-> k, r |-> -1]
  ELSE IF size = 0 THEN [k |-> Panic(k, "mappages: size"), r |-> -1]
  ELSE mappages_loop(k, cpu, pt, PGROUNDDOWN(va), PGROUNDDOWN(va + size - 1), pa, perm)

\* uvmunmap
RECURSIVE uvmunmap_loop(_, _, _, _, _, _)
RECURSIVE uvmunmap_pte(_, _, _, _, _, _, _)
\* *pte = 0 after the kfree; kfree may have filled the page that holds the entry
uvmunmap_clear(k, pte) == IF k.pan # "" THEN k ELSE SetPte(k, pte, 0)

\* one turn of the loop, once walk has answered with w = [k, pte]
uvmunmap_pte(k, w, cpu, pt, a, stop, do_free) ==
  IF w.k.pan # "" THEN w.k
  ELSE IF w.pte = NULLPTE THEN Panic(k, "uvmunmap: walk")
  ELSE IF ~HasBit(Deref(k, w.pte), PTE_V) THEN Panic(k, "uvmunmap: not mapped")
  ELSE IF PTE_FLAGS(Deref(k, w.pte)) = PTE_V THEN Panic(k, "uvmunmap: not a leaf")
  ELSE uvmunmap_loop(
         uvmunmap_clear(
           IF do_free = 1 THEN kfree(k, cpu, PTE2PA(Deref(k, w.pte))) ELSE k, w.pte),
         cpu, pt, a + PGSIZE, stop, do_free)

uvmunmap_loop(k, cpu, pt, a, stop, do_free) ==
  IF k.pan # "" \/ ~(a < stop) THEN k
  ELSE uvmunmap_pte(k, walk(k, cpu, pt, a, 0), cpu, pt, a, stop, do_free)

uvmunmap(k, cpu, pt, va, npages, do_free) ==
  IF k.pan # "" THEN k
  ELSE IF va % PGSIZE # 0 THEN Panic(k, "uvmunmap: not aligned")
  ELSE uvmunmap_loop(k, cpu, pt, va, va + npages * PGSIZE, do_free)

\* uvmwalkcow, once kcopyonwrite has answered with c = [k, pa]
uvmwalkcow_remap(c, pte, flags) ==
  IF c.k.pan # "" \/ c.pa = 0 THEN [k |-> c.k, pte |-> NULLPTE]
  ELSE [k |-> SetPte(c.k, pte, PA2PTE(c.pa) + SetBit(ClearBit(flags, PTE_COW), PTE_W)),
        pte |-> pte]

\* uvmwalkcow, once walk has answered with w = [k, pte]
uvmwalkcow_pte(w, cpu) ==
  IF w.k.pan # "" \/ w.pte = NULLPTE THEN w
  ELSE IF ~HasBit(PTE_FLAGS(Deref(w.k, w.pte)), PTE_COW) THEN w
  ELSE uvmwalkcow_remap(kcopyonwrite(w.k, cpu, PTE2PA(Deref(w.k, w.pte))), w.pte,
                        PTE_FLAGS(Deref(w.k, w.pte)))

\* uvmwalkcow: [k, pte]; pte = NULLPTE when there is no entry or no memory.
uvmwalkcow(k, cpu, pt, va) ==
  IF k.pan # "" THEN [k |-> k, pte |-> NULLPTE]
  ELSE IF va % PGSIZE # 0
    THEN [k |-> Panic(k, "uvmwalkcow: va not page-aligned"), pte |-> NULLPTE]
  ELSE uvmwalkcow_pte(walk(k, cpu, pt, va, 0), cpu)

\* uvmcreate, once kalloc has answered with a = [k, pa]
uvmcreate_zero(a) ==
  IF a.pa = 0 THEN a
  ELSE [k |-> [a.k EXCEPT !.mem[FN(a.pa)] = ZeroPage], pa |-> a.pa]

\* uvmcreate: [k, pa]
uvmcreate(k, cpu) == uvmcreate_zero(kalloc(k, cpu))

\* uvmdealloc: the new size
uvmdealloc(k, cpu, pt, oldsz, newsz) ==
  IF newsz >= oldsz THEN k
  ELSE IF PGROUNDUP(newsz) < PGROUNDUP(oldsz)
    THEN uvmunmap(k, cpu, pt, PGROUNDUP(newsz),
                  (PGROUNDUP(oldsz) - PGROUNDUP(newsz)) \div PGSIZE, 1)
  ELSE k

\* uvmalloc: [k, r], r the new size or 0
RECURSIVE uvmalloc_loop(_, _, _, _, _, _, _)
RECURSIVE uvmalloc_page(_, _, _, _, _, _, _)
RECURSIVE uvmalloc_mapped(_, _, _, _, _, _, _, _)
\* one turn of the loop, once mappages has answered with mp = [k, r]
uvmalloc_mapped(mp, mem_pa, cpu, pt, a, oldsz, newsz, xperm) ==
  IF mp.k.pan # "" THEN [k |-> mp.k, r |-> 0]
  ELSE IF mp.r # 0
    THEN [k |-> uvmdealloc(kfree(mp.k, cpu, mem_pa), cpu, pt, a, oldsz), r |-> 0]
  ELSE uvmalloc_loop(mp.k, cpu, pt, a + PGSIZE, oldsz, newsz, xperm)

\* one turn of the loop, once kalloc has answered with m = [k, pa]
uvmalloc_page(m, cpu, pt, a, oldsz, newsz, xperm) ==
  IF m.pa = 0 THEN [k |-> uvmdealloc(m.k, cpu, pt, a, oldsz), r |-> 0]
  ELSE uvmalloc_mapped(
         mappages([m.k EXCEPT !.mem[FN(m.pa)] = ZeroPage], cpu, pt, a, PGSIZE, m.pa,
                  SetBit(SetBit(xperm, PTE_R), PTE_U)),
         m.pa, cpu, pt, a, oldsz, newsz, xperm)

uvmalloc_loop(k, cpu, pt, a, oldsz, newsz, xperm) ==
  IF k.pan # "" THEN [k |-> k, r |-> 0]
  ELSE IF ~(a < newsz) THEN [k |-> k, r |-> newsz]
  ELSE uvmalloc_page(kalloc(k, cpu), cpu, pt, a, oldsz, newsz, xperm)

uvmalloc(k, cpu, pt, oldsz, newsz, xperm) ==
  IF newsz < oldsz THEN [k |-> k, r |-> oldsz]
  ELSE uvmalloc_loop(k, cpu, pt, PGROUNDUP(oldsz), PGROUNDUP(oldsz), newsz, xperm)

\* freewalk
RECURSIVE freewalk(_, _, _, _)
RECURSIVE freewalk_entries(_, _, _, _, _)
\* a freewalk that returns without the kfree of the table page
freewalk_done_no_kfree(k, cpu, pt) == k

\* kfree of the table page once its entries are cleared
freewalk_done(k, cpu, pt) == IF k.pan # "" THEN k ELSE kfree(k, cpu, pt)

\* pagetable[i] = 0 once the table below is freed
freewalk_clear(k, pt, i) == IF k.pan # "" THEN k ELSE [k EXCEPT !.mem[FN(pt)][i] = 0]

freewalk(k, cpu, pt, depth) ==
  IF k.pan # "" THEN k
  ELSE IF ~Managed(pt) \/ depth > 3 THEN Panic(k, WILD)
  ELSE freewalk_done(freewalk_entries(k, cpu, pt, 0, depth), cpu, pt)

freewalk_entries(k, cpu, pt, i, depth) ==
  IF k.pan # "" \/ i = NPTE THEN k
  ELSE IF HasBit(k.mem[FN(pt)][i], PTE_V) /\ ~HasBit(k.mem[FN(pt)][i], PTE_R)
          /\ ~HasBit(k.mem[FN(pt)][i], PTE_W) /\ ~HasBit(k.mem[FN(pt)][i], PTE_X)
    THEN freewalk_entries(
           freewalk_clear(freewalk(k, cpu, PTE2PA(k.mem[FN(pt)][i]), depth + 1), pt, i),
           cpu, pt, i + 1, depth)
  ELSE IF HasBit(k.mem[FN(pt)][i], PTE_V) THEN Panic(k, "freewalk: leaf")
  ELSE freewalk_entries(k, cpu, pt, i + 1, depth)

\* uvmfree
uvmfree(k, cpu, pt, size) ==
  freewalk(IF size > 0 THEN uvmunmap(k, cpu, pt, 0, PGROUNDUP(size) \div PGSIZE, 1) ELSE k,
           cpu, pt, 0)

\* uvmcopy: [k, r], r = 0 or -1
RECURSIVE uvmcopy_loop(_, _, _, _, _, _)
RECURSIVE uvmcopy_pte(_, _, _, _, _, _, _)
RECURSIVE uvmcopy_mapped(_, _, _, _, _, _, _)
\* a copy that, when it fails, clears the entries of the child and keeps the
\* references it has added
uvmcopy_mapped_no_free(mp, pa, cpu, old, new, i, size) ==
  IF mp.k.pan # "" THEN [k |-> mp.k, r |-> -1]
  ELSE IF mp.r # 0
    THEN [k |-> uvmunmap(mp.k, cpu, new, 0, i \div PGSIZE, 0), r |-> -1]
  ELSE uvmcopy_loop(kincrementrefcount(mp.k, pa), cpu, old, new, i + PGSIZE, size)

\* a copy that maps the page in the child and forgets the reference it adds
uvmcopy_mapped_no_incref(mp, pa, cpu, old, new, i, size) ==
  IF mp.k.pan # "" THEN [k |-> mp.k, r |-> -1]
  ELSE IF mp.r # 0
    THEN [k |-> uvmunmap(mp.k, cpu, new, 0, i \div PGSIZE, 1), r |-> -1]
  ELSE uvmcopy_loop(mp.k, cpu, old, new, i + PGSIZE, size)

\* one turn of the loop, once mappages has answered with mp = [k, r]
uvmcopy_mapped(mp, pa, cpu, old, new, i, size) ==
  IF mp.k.pan # "" THEN [k |-> mp.k, r |-> -1]
  ELSE IF mp.r # 0
    THEN [k |-> uvmunmap(mp.k, cpu, new, 0, i \div PGSIZE, 1), r |-> -1]
  ELSE uvmcopy_loop(kincrementrefcount(mp.k, pa), cpu, old, new, i + PGSIZE, size)

\* the flags of the entry in both tables: a writable page becomes copy-on-write
uvmcopy_flags(flags) ==
  IF HasBit(flags, PTE_W) THEN SetBit(ClearBit(flags, PTE_W), PTE_COW) ELSE flags

\* one turn of the loop, once walk has answered with w = [k, pte]
uvmcopy_pte(k, w, cpu, old, new, i, size) ==
  IF w.k.pan # "" THEN [k |-> w.k, r |-> -1]
  ELSE IF w.pte = NULLPTE THEN [k |-> Panic(k, "uvmcopy: pte should exist"), r |-> -1]
  ELSE IF ~HasBit(Deref(k, w.pte), PTE_V)
    THEN [k |-> Panic(k, "uvmcopy: page not present"), r |-> -1]
  ELSE uvmcopy_mapped(
         mappages(IF HasBit(PTE_FLAGS(Deref(k, w.pte)), PTE_W)
                    THEN SetPte(k, w.pte,
                                PA2PTE(PTE2PA(Deref(k, w.pte)))
                                  + uvmcopy_flags(PTE_FLAGS(Deref(k, w.pte))))
                  ELSE k,
                  cpu, new, i, PGSIZE, PTE2PA(Deref(k, w.pte)),
                  uvmcopy_flags(PTE_FLAGS(Deref(k, w.pte)))),
         PTE2PA(Deref(k, w.pte)), cpu, old, new, i, size)

uvmcopy_loop(k, cpu, old, new, i, size) ==
  IF k.pan # "" THEN [k |-> k, r |-> -1]
  ELSE IF ~(i < size) THEN [k |-> k, r |-> 0]
  ELSE uvmcopy_pte(k, walk(k, cpu, old, i, 0), cpu, old, new, i, size)

uvmcopy(k, cpu, old, new, size) == uvmcopy_loop(k, cpu, old, new, 0, size)

\* copyout of len bytes of the value v, word by word: [k, r], r = 0 or -1
WORDSZ == PGSIZE \div NPTE
memmove_words(k, pa, n, v) ==
  IF ~Managed(PGROUNDDOWN(pa)) THEN Panic(k, WILD)
  ELSE [k EXCEPT !.mem[FN(pa)] =
          [i \in Idx |-> IF i * WORDSZ >= (pa % PGSIZE) /\ i * WORDSZ < (pa % PGSIZE) + n
                           THEN v ELSE k.mem[FN(pa)][i]]]

RECURSIVE copyout(_, _, _, _, _, _)
RECURSIVE copyout_pte(_, _, _, _, _, _, _)
\* the bytes that go to the page at va0
copyout_n(dstva, va0, len) ==
  IF PGSIZE - (dstva - va0) > len THEN len ELSE PGSIZE - (dstva - va0)

\* one turn of the loop, once uvmwalkcow has answered with c = [k, pte]
copyout_pte(c, cpu, pt, dstva, va0, v, len) ==
  IF c.k.pan # "" THEN [k |-> c.k, r |-> -1]
  ELSE IF c.pte = NULLPTE \/ ~HasBit(Deref(c.k, c.pte), PTE_V)
          \/ ~HasBit(Deref(c.k, c.pte), PTE_U)
    THEN [k |-> c.k, r |-> -1]
  ELSE IF ~HasBit(Deref(c.k, c.pte), PTE_W) THEN [k |-> c.k, r |-> -1]
  ELSE copyout(memmove_words(c.k, PTE2PA(Deref(c.k, c.pte)) + (dstva - va0),
                             copyout_n(dstva, va0, len), v),
               cpu, pt, va0 + PGSIZE, v, len - copyout_n(dstva, va0, len))

copyout(k, cpu, pt, dstva, v, len) ==
  IF k.pan # "" THEN [k |-> k, r |-> -1]
  ELSE IF ~(len > 0) THEN [k |-> k, r |-> 0]
  ELSE IF PGROUNDDOWN(dstva) >= MAXVA THEN [k |-> k, r |-> -1]
  ELSE copyout_pte(uvmwalkcow(k, cpu, pt, PGROUNDDOWN(dstva)), cpu, pt, dstva,
                   PGROUNDDOWN(dstva), v, len)

\* ------------------------------------------------------------ vm.c: mmap regions
\* slots of the vmas[] array (NPROC in the kernel); a pointer to a vm_area is
\* its index, 0 is the null pointer
NVMA == 4
Slots == 1 .. NVMA
\* words of the one file that is mapped
FILEWORDS == 12

PROT_READ == 1
PROT_WRITE == 2
PROT_EXEC == 4
MAP_SHARED == 1
MAP_PRIVATE == 2
USYSCALL == MAXVA - 3 * PGSIZE

ZeroVma ==
  [vm_start |-> 0, vm_end |-> 0, vm_prot |-> 0, vm_flags |-> 0, vm_next |-> 0,
   vm_file |-> 0, vm_file_offset |-> 0, used |-> 0]

\* file.c: the reference count of an open file
filedup(k, f) == [k EXCEPT !.fref[f] = @ + 1]
fileclose(k, f) == [k EXCEPT !.fref[f] = @ - 1]

\* The mapped file on disk: FILEWORDS words, word w holding 100 + 2 * w.  The
\* disk is outside the kernel state: a writei call is recorded, with the virtual
\* page it is made for, and the words on disk stay as they are.
FileWord(f, w) == 100 + 2 * w

\* fs.c readi: at most n bytes of the file from byte offset off on into page pa
readi(k, f, pa, off, n) ==
  [k EXCEPT !.mem[FN(pa)] =
     [i \in Idx |->
        IF i * WORDSZ < n /\ (off \div WORDSZ) + i < FILEWORDS
          THEN FileWord(f, (off \div WORDSZ) + i) ELSE k.mem[FN(pa)][i]]]

\* fs.c writei: n bytes of the page pa to the file at byte offset off
writei(k, f, va, pa, off, n) ==
  [k EXCEPT !.wlog = Append(@, [va |-> va, off |-> off, len |-> n])]

\* vma_alloc: [k, vma]
RECURSIVE vma_alloc_from(_, _)
vma_alloc_from(k, i) ==
  IF i > NVMA THEN [k |-> Panic(k, "vma_alloc: no free vmas"), vma |-> 0]
  ELSE IF k.vmas[i].used = 0 THEN [k |-> [k EXCEPT !.vmas[i].used = 1], vma |-> i]
  ELSE vma_alloc_from(k, i + 1)

vma_alloc(k) == IF k.pan # "" THEN [k |-> k, vma |-> 0] ELSE vma_alloc_from(k, 1)

\* vma_find: [vma, prev], starting with the given prev
RECURSIVE vma_find(_, _, _, _, _)
vma_find(k, vma, addr, prev, fuel) ==
  IF vma = 0 \/ fuel = 0 THEN [vma |-> 0, prev |-> prev]
  ELSE IF addr >= k.vmas[vma].vm_start /\ addr < k.vmas[vma].vm_end
    THEN [vma |-> vma, prev |-> prev]
  ELSE vma_find(k, k.vmas[vma].vm_next, addr, vma, fuel - 1)

\* mmap: the start of the new region, below the first region of the list
mmap_start(k, p, len) ==
  PGROUNDDOWN((IF k.vma_list[p] # 0 THEN k.vmas[k.vma_list[p]].vm_start ELSE USYSCALL) - len)

\* mmap, once vma_alloc has answered with a = [k, vma]
mmap_vma(k, a, p, len, prot, flags, fd, offset) ==
  IF a.k.pan # "" THEN [k |-> a.k, r |-> -1]
  ELSE [k |-> [filedup(a.k, fd) EXCEPT
                 !.vmas[a.vma] =
                   [vm_start |-> mmap_start(k, p, len),
                    vm_end |-> mmap_start(k, p, len) + len, vm_prot |-> prot,
                    vm_flags |-> flags, vm_next |-> k.vma_list[p], vm_file |-> fd,
                    vm_file_offset |-> offset % UintMod, used |-> 1],
                 !.vma_list[p] = a.vma],
        r |-> mmap_start(k, p, len)]

\* an mmap that takes its reference to the file before it looks at the offset
mmap_dup_before_check(k, p, len, prot, flags, fd, offset) ==
  IF k.pan # "" THEN [k |-> k, r |-> -1]
  ELSE IF FileWritable(fd) = 0 /\ HasBit(prot, PROT_WRITE) /\ HasBit(flags, MAP_SHARED)
    THEN [k |-> k, r |-> -1]
  ELSE IF FileReadable(fd) = 0 /\ HasBit(prot, PROT_READ) THEN [k |-> k, r |-> -1]
  ELSE IF offset % PGSIZE # 0 THEN [k |-> filedup(k, fd), r |-> -1]
  ELSE mmap_vma(k, vma_alloc(k), p, len, prot, flags, fd, offset)

\* mmap: [k, r], r the start of the region or -1 for ~0
mmap(k, p, len, prot, flags, fd, offset) ==
  IF k.pan # "" THEN [k |-> k, r |-> -1]
  ELSE IF FileWritable(fd) = 0 /\ HasBit(prot, PROT_WRITE) /\ HasBit(flags, MAP_SHARED)
    THEN [k |-> k, r |-> -1]
  ELSE IF FileReadable(fd) = 0 /\ HasBit(prot, PROT_READ) THEN [k |-> k, r |-> -1]
  ELSE IF offset % PGSIZE # 0 THEN [k |-> k, r |-> -1]
  ELSE mmap_vma(k, vma_alloc(k), p, len, prot, flags, fd, offset)

\* mmap_copy
RECURSIVE mmap_copy_from(_, _, _, _)
RECURSIVE mmap_copy_vma(_, _, _, _, _)
\* one turn of the loop, once vma_alloc has answered with a = [k, vma]
mmap_copy_vma(k, a, vma, np, fuel) ==
  IF a.k.pan # "" THEN a.k
  ELSE mmap_copy_from(
         filedup([a.k EXCEPT !.vmas[a.vma] =
                               [k.vmas[vma] EXCEPT !.vm_next = k.vma_list[np]],
                             !.vma_list[np] = a.vma],
                 k.vmas[vma].vm_file),
         k.vmas[vma].vm_next, np, fuel - 1)

mmap_copy_from(k, vma, np, fuel) ==
  IF k.pan # "" \/ vma = 0 \/ fuel = 0 THEN k
  ELSE mmap_copy_vma(k, vma_alloc(k), vma, np, fuel)

mmap_copy(k, p, np) == mmap_copy_from(k, k.vma_list[p], np, NVMA + 1)

\* vma_free, the loop over the pages of the region
RECURSIVE vma_free_pages(_, _, _, _, _, _)
RECURSIVE vma_free_pte(_, _, _, _, _, _, _)
\* the bytes of the page that belong to the region
vma_free_length(bytes_left) == IF bytes_left > PGSIZE THEN PGSIZE ELSE bytes_left

\* one turn of the loop, once walk has answered with w = [k, pte]
vma_free_pte(k, w, p, vma, page, offset, bytes_left) ==
  IF w.k.pan # "" THEN w.k
  ELSE IF w.pte = NULLPTE \/ ~HasBit(PTE_FLAGS(Deref(k, w.pte)), PTE_V)
    THEN vma_free_pages(k, p, vma, page + PGSIZE, offset, bytes_left)
  ELSE vma_free_pages(
         uvmunmap(IF HasBit(k.vmas[vma].vm_flags, MAP_SHARED)
                     /\ HasBit(PTE_FLAGS(Deref(k, w.pte)), PTE_D)
                    THEN writei(k, k.vmas[vma].vm_file, page, PTE2PA(Deref(k, w.pte)),
                                offset, vma_free_length(bytes_left))
                  ELSE k,
                  mycpu(p), k.pagetable[p], page, 1, 1),
         p, vma, page + PGSIZE, (offset + PGSIZE) % UintMod,
         (bytes_left + UintMod - vma_free_length(bytes_left)) % UintMod)

vma_free_pages(k, p, vma, page, offset, bytes_left) ==
  IF k.pan # "" \/ ~(page < k.vmas[vma].vm_end) THEN k
  ELSE vma_free_pte(k, walk(k, mycpu(p), k.pagetable[p], page, 0), p, vma, page, offset,
                    bytes_left)

\* vma_free after the loop: k as it was at the call, k1 as the loop left it
vma_free_unlink(k, k1, p, prev, vma) ==
  IF k1.pan # "" THEN [k |-> k1, next |-> 0]
  ELSE [k |-> [(IF prev # 0
                  THEN [fileclose(k1, k.vmas[vma].vm_file) EXCEPT
                          !.vmas[prev].vm_next = k.vmas[vma].vm_next]
                ELSE [fileclose(k1, k.vmas[vma].vm_file) EXCEPT
                        !.vma_list[p] = k.vmas[vma].vm_next])
                 EXCEPT !.vmas[vma] = ZeroVma],
        next |-> k.vmas[vma].vm_next]

\* vma_free: [k, next]
vma_free(k, p, prev, vma) ==
  IF k.pan # "" THEN [k |-> k, next |-> 0]
  ELSE vma_free_unlink(
         k,
         vma_free_pages(k, p, vma, k.vmas[vma].vm_start, k.vmas[vma].vm_file_offset,
                        (k.vmas[vma].vm_end - k.vmas[vma].vm_start) % UintMod),
         p, prev, vma)

\* a split that forgets to advance the file offset of the new region
vma_split_new_same_offset(k, a, vma, at) ==
  IF a.k.pan # "" THEN a
  ELSE [k |-> [filedup(a.k, k.vmas[vma].vm_file) EXCEPT
                 !.vmas[a.vma] =
                   [vm_start |-> at, vm_end |-> k.vmas[vma].vm_end,
                    vm_prot |-> k.vmas[vma].vm_prot, vm_flags |-> k.vmas[vma].vm_flags,
                    vm_next |-> k.vmas[vma].vm_next, vm_file |-> k.vmas[vma].vm_file,
                    vm_file_offset |-> k.vmas[vma].vm_file_offset,
                    used |-> 1],
                 !.vmas[vma].vm_end = at,
                 !.vmas[vma].vm_next = a.vma],
        vma |-> a.vma]

\* the split of munmap, once vma_alloc has answered with a = [k, vma]: the new
\* region [at, vm_end) follows vma, which keeps [vm_start, at)
vma_split_new(k, a, vma, at) ==
  IF a.k.pan # "" THEN a
  ELSE [k |-> [filedup(a.k, k.vmas[vma].vm_file) EXCEPT
                 !.vmas[a.vma] =
                   [vm_start |-> at, vm_end |-> k.vmas[vma].vm_end,
                    vm_prot |-> k.vmas[vma].vm_prot, vm_flags |-> k.vmas[vma].vm_flags,
                    vm_next |-> k.vmas[vma].vm_next, vm_file |-> k.vmas[vma].vm_file,
                    vm_file_offset |->
                      (k.vmas[vma].vm_file_offset + (at - k.vmas[vma].vm_start)) % UintMod,
                    used |-> 1],
                 !.vmas[vma].vm_end = at,
                 !.vmas[vma].vm_next = a.vma],
        vma |-> a.vma]

\* the split of munmap: [k, vma], vma the new region
vma_split(k, vma, at) == vma_split_new(k, vma_alloc(k), vma, at)

\* munmap, the do-while loop
RECURSIVE munmap_loop(_, _, _, _, _, _)
RECURSIVE munmap_freed(_, _, _, _, _)
\* the loop condition, once vma_free has answered with f = [k, next]
munmap_freed(f, p, prev, unmap_end, fuel) ==
  IF f.k.pan # "" THEN f.k
  ELSE IF f.next # 0 /\ unmap_end > f.k.vmas[f.next].vm_start
    THEN munmap_loop(f.k, p, prev, f.next, unmap_end, fuel - 1)
  ELSE f.k

munmap_loop(k, p, prev, vma, unmap_end, fuel) ==
  IF k.pan # "" THEN k
  ELSE IF fuel = 0 THEN Panic(k, WILD)
  ELSE munmap_freed(
         vma_free(IF unmap_end < k.vmas[vma].vm_end THEN vma_split(k, vma, unmap_end).k
                  ELSE k,
                  p, prev, vma),
         p, prev, unmap_end, fuel)

\* munmap after the first split, which has answered with s = [k, vma]
munmap_split(s, p, vma, unmap_end) ==
  IF s.k.pan # "" THEN s.k ELSE munmap_loop(s.k, p, vma, s.vma, unmap_end, 2 * NVMA)

\* munmap, once vma_find has answered with found = [vma, prev]
munmap_found(k, found, p, unmap_start, unmap_end) ==
  IF found.vma = 0 THEN k
  ELSE IF unmap_start > k.vmas[found.vma].vm_start
    THEN munmap_split(vma_split(k, found.vma, unmap_start), p, found.vma, unmap_end)
  ELSE munmap_loop(k, p, found.prev, found.vma, unmap_end, 2 * NVMA)

\* munmap: the new state; the result is always 0
munmap(k, p, addr, len) ==
  IF k.pan # "" THEN k
  ELSE munmap_found(k, vma_find(k, k.vma_list[p], PGROUNDDOWN(addr), 0, NVMA + 1), p,
                    PGROUNDDOWN(addr), PGROUNDUP(PGROUNDDOWN(addr) + len))

\* munmap_all
RECURSIVE munmap_all(_, _, _)
munmap_all(k, p, fuel) ==
  IF k.pan # "" \/ k.vma_list[p] = 0 THEN k
  ELSE IF fuel = 0 THEN Panic(k, WILD)
  ELSE munmap_all(vma_free(k, p, 0, k.vma_list[p]).k, p, fuel - 1)

\* mmap_page_fault_handler: the byte offset in the file of the page at va
fault_offset(v, va) == (v.vm_file_offset + (va - v.vm_start)) % UintMod

\* mmap_page_fault_handler: the bytes to read; vm_end - offset is computed in
\* 64 bits without sign
fault_length(v, va) ==
  IF v.vm_end < fault_offset(v, va) \/ v.vm_end - fault_offset(v, va) > PGSIZE
    THEN PGSIZE
  ELSE v.vm_end - fault_offset(v, va)

\* mmap_page_fault_handler: the permissions of the new entry
fault_perm(v) ==
  (IF v.vm_prot # 0 /\ PROT_READ # 0 THEN PTE_R ELSE 0)
  + (IF v.vm_prot # 0 /\ PROT_WRITE # 0 THEN PTE_W ELSE 0)
  + (IF v.vm_prot # 0 /\ PROT_EXEC # 0 THEN PTE_X ELSE 0)
  + PTE_U

\* mmap_page_fault_handler, once mappages has answered with mp = [k, r]
fault_mapped(mp) ==
  IF mp.k.pan # "" THEN [k |-> mp.k, r |-> -1]
  ELSE IF mp.r < 0 THEN [k |-> mp.k, r |-> -1]
  ELSE [k |-> mp.k, r |-> 1]

\* mmap_page_fault_handler, once kalloc has answered with a = [k, pa]
fault_page(a, v, p, va) ==
  IF a.k.pan # "" THEN [k |-> a.k, r |-> -1]
  ELSE IF a.pa = 0
    THEN [k |-> Panic(a.k, "mmap_page_fault_handler: no free mem"), r |-> -1]
  ELSE fault_mapped(
         mappages(readi([a.k EXCEPT !.mem[FN(a.pa)] = ZeroPage], v.vm_file, a.pa,
                        fault_offset(v, va), fault_length(v, va)),
                  mycpu(p), a.k.pagetable[p], va, PGSIZE, a.pa, fault_perm(v)))

\* mmap_page_fault_handler, once vma_find has answered with found = [vma, prev]
fault_vma(k, found, p, va) ==
  IF found.vma = 0 THEN [k |-> k, r |-> 0]
  ELSE fault_page(kalloc(k, mycpu(p)), k.vmas[found.vma], p, va)

\* mmap_page_fault_handler: [k, r], r = 0 (no region), 1 (mapped) or -1
mmap_page_fault_handler(k, p, va) ==
  IF k.pan # "" THEN [k |-> k, r |-> -1]
  ELSE IF va % PGSIZE # 0
    THEN [k |-> Panic(k, "mmap_page_fault_handler: va not page-aligned"), r |-> -1]
  ELSE fault_vma(k, vma_find(k, k.vma_list[p], va, 0, NVMA + 1), p, va)

\* ------------------------------------------------------------ steps
\* the largest p->sz, in pages
MaxSzPages == 2
\* processes created in one run (allocpid hands out 1 .. MaxPid)
MaxPid == 2

UserPages == {pg * PGSIZE : pg \in 0 .. (NPTE * NPTE * NPTE - 1)}

Call(op, p, a, b, r) == [op |-> op, p |-> p, a |-> a, b |-> b, r |-> r]

\* ------------------------------------------------------------ bio.c, the data
\* NELEM(bcache.table), NELEM(bcache.buf), the processes that use the cache and
\* the largest block number they ask for
NBUCKET == 2
NBUF == 2
NBPROC == 2
MaxBlock == 3

Buckets == 0 .. (NBUCKET - 1)
Bufs == 0 .. (NBUF - 1)
BProcs == 1 .. NBPROC
Blocks == 0 .. MaxBlock
Devs == {1}
\* the null struct buf pointer
NoBuf == NBUF

\* a struct buf of the zeroed bcache, its sleep-lock free (locked: the holder)
ZeroBuf == [dev |-> 0, blockno |-> 0, valid |-> 0, refcnt |-> 0, locked |-> 0]

\* binit, second loop: buf i goes to the head of bucket i % NELEM(bcache.table)
RECURSIVE binit_loop(_, _)
binit_loop(bc, i) ==
  IF i = NBUF THEN bc
  ELSE binit_loop([bc EXCEPT !.head[i % NBUCKET] = <<i>> \o @], i + 1)

\* binit: the locks free (0, else the process holding it), every list empty
binit ==
  binit_loop([buf |-> [b \in Bufs |-> ZeroBuf], head |-> [t \in Buckets |-> <<>>],
              tlock |-> [t \in Buckets |-> 0], lock |-> 0], 0)

\* bget, first loop: the first buf of the list that caches (dev, blockno)
RECURSIVE bget_find(_, _, _, _)
bget_find(bc, list, dev, blockno) ==
  IF list = <<>> THEN NoBuf
  ELSE IF bc.buf[Head(list)].dev = dev /\ bc.buf[Head(list)].blockno = blockno
         THEN Head(list)
       ELSE bget_find(bc, Tail(list), dev, blockno)

\* bget, second loop and the loop over the victim: the first buf with refcnt 0
RECURSIVE bget_free(_, _)
bget_free(bc, list) ==
  IF list = <<>> THEN NoBuf
  ELSE IF bc.buf[Head(list)].refcnt = 0 THEN Head(list)
       ELSE bget_free(bc, Tail(list))

\* bget: a free buf becomes the buf of (dev, blockno)
bget_assign(bc, b, dev, blockno) ==
  [bc EXCEPT !.buf[b] = [@ EXCEPT !.dev = dev, !.blockno = blockno, !.valid = 0,
                                  !.refcnt = 1]]

\* bget: buf b leaves the list of the victim for the head of the list of bucket
bget_move(bc, b, victim, bucket) ==
  [bc EXCEPT !.head[victim] = SelectSeq(@, LAMBDA x : x # b),
             !.head[bucket] = <<b>> \o @]

\* acquiresleep returns once the sleep-lock of b is free
acquiresleep_free(bc, b) == bc.buf[b].locked = 0

\* bget with the block in the cache: after release(&bucket->lock) comes
\* acquiresleep(&b->lock), then the return
bget_hit_returns == "hold"

bget_hit_next == "sleep"

\* a process outside the buffer cache
IdleProc == [pc |-> "idle", dev |-> 0, blockno |-> 0, b |-> NoBuf, victim |-> 0, tmp |-> 0]

\* ------------------------------------------------------------ e1000.c, the data
\* the sizes of the transmit and receive rings, the transmit calls of one run,
\* the packets that arrive and the mbufs mbufalloc can hand out
TX_RING_SIZE == 4
RX_RING_SIZE == 4
MaxTx == 10
MaxRx == 8
MaxMbuf == RX_RING_SIZE + MaxRx - 1

TxIdx == 0 .. (TX_RING_SIZE - 1)
RxIdx == 0 .. (RX_RING_SIZE - 1)

\* the "descriptor done" bit of a status field, the bits of a command field
E1000_TXD_STAT_DD == 1
E1000_RXD_STAT_DD == 1
E1000_TXD_CMD_EOP == 1
E1000_TXD_CMD_RS == 8

\* the length of packet k on the wire
PktLen(k) == 60 + k

\* e1000_init: every transmit descriptor done and without mbuf, TDH = TDT = 0;
\* every receive descriptor with an mbuf of its own, RDH = 0, RDT = the last.
\* An mbuf is its number, 0 is the null pointer.  Beside the driver's data: the
\* transmit mbufs made so far (ntx), accepted by e1000_transmit (queued), sent by
\* the device (sent) and freed by mbuffree (freed); the receive mbufs made so far
\* (nmbuf), what each holds (mdata: the packet, 0 for none), the packets that
\* have arrived (npkt), the mbufs handed to net_rx (rxlog), and where e1000_recv
\* is (rxpc) with its rx_index (rxi)
e1000_init ==
  [tdt |-> 0, tdh |-> 0,
   tx_status |-> [i \in TxIdx |-> E1000_TXD_STAT_DD],
   tx_addr |-> [i \in TxIdx |-> 0], tx_cmd |-> [i \in TxIdx |-> 0],
   tx_mbufs |-> [i \in TxIdx |-> 0],
   ntx |-> 0, queued |-> {}, sent |-> {}, freed |-> {},
   rdt |-> RX_RING_SIZE - 1, rdh |-> 0,
   rx_status |-> [i \in RxIdx |-> 0], rx_length |-> [i \in RxIdx |-> 0],
   rx_addr |-> [i \in RxIdx |-> i + 1], rx_mbufs |-> [i \in RxIdx |-> i + 1],
   nmbuf |-> RX_RING_SIZE, mdata |-> [m \in 1 .. MaxMbuf |-> 0], npkt |-> 0,
   rxlog |-> <<>>, rxpc |-> "idle", rxi |-> 0]

\* e1000_transmit: the index after tx_index, and after ++rx_index in e1000_recv
tx_next(i) == IF i + 1 = TX_RING_SIZE THEN 0 ELSE i + 1
rx_next(i) == IF i + 1 = RX_RING_SIZE THEN 0 ELSE i + 1

\* e1000_transmit(m) under e1000_tx_lock: [n, r]
e1000_transmit(n, m) ==
  IF ~HasBit(n.tx_status[n.tdt], E1000_TXD_STAT_DD) THEN [n |-> n, r |-> -1]
  ELSE [n |-> [n EXCEPT
                 !.freed = IF n.tx_mbufs[n.tdt] # 0 THEN @ \cup {n.tx_mbufs[n.tdt]} ELSE @,
                 !.tx_mbufs[n.tdt] = m,
                 !.tx_addr[n.tdt] = m,
                 !.tx_cmd[n.tdt] = SetBit(SetBit(@, E1000_TXD_CMD_RS), E1000_TXD_CMD_EOP),
                 !.tdt = tx_next(n.tdt)],
        r |-> 0]

\* an e1000_recv that leaves the status of the descriptor as the device set it
e1000_recv_refill_keeps_status(n, idx, m) ==
  [n EXCEPT !.rx_mbufs[idx] = m, !.rx_addr[idx] = m, !.rdt = idx]

\* e1000_recv: the descriptor gets the new mbuf m and a cleared status, RDT
\* moves to it
e1000_recv_refill(n, idx, m) ==
  [n EXCEPT !.rx_mbufs[idx] = m, !.rx_addr[idx] = m, !.rx_status[idx] = 0, !.rdt = idx]

\* e1000_recv, one turn of the loop at descriptor idx that is done: the length
\* goes into the mbuf, which net_rx gets; then the refill with mbuf m
e1000_recv_turn(n, idx, m) ==
  e1000_recv_refill(
    [n EXCEPT !.rxlog = Append(@, [mbuf |-> n.rx_mbufs[idx],
                                   data |-> n.mdata[n.rx_mbufs[idx]],
                                   len |-> n.rx_length[idx]]),
              !.nmbuf = m, !.rxi = idx],
    idx, m)

\* ------------------------------------------------------------ user/pingpong.c, the data
\* the parent before pipe(), no child yet, nothing in the pipe, nothing printed
PingPongStart ==
  [parent |-> "start", child |-> "none", pipe |-> 0, out |-> <<>>,
   ppid |-> 0, cpid |-> 0, ppiece |-> 0, cpiece |-> 0, pstatus |-> -1, cstatus |-> -1]

\* the process ids the kernel may give to pingpong and to its child: the first
\* one after init and the shell, and PidChoices - 1 later ones
FirstUserPid == 3
PidChoices == 3

\* printf writes a line to the console in pieces, one write call after the
\* other: the process id, then the text
PrintPieces == 3

\* one more piece of a line on the console
pp_piece(s, pid, line, k) ==
  [s EXCEPT !.out = Append(@, [pid |-> pid, line |-> line, piece |-> k])]

\* the cores inside kalloc and kfree, the processes inside the buffer cache
conc == <<kcore, klock, sawempty, bcache, bio, nic, pp>>

\* what the steps of the page tables and regions leave alone
others == <<held, conc>>

CommitMem(k, call) ==
  /\ mem' = k.mem
  /\ page_refcounts' = k.ref
  /\ kmem' = k.kmem
  /\ pagetable' = k.pagetable
  /\ sz' = k.sz
  /\ panicked' = k.pan
  /\ vmas' = k.vmas
  /\ vma_list' = k.vma_list
  /\ fref' = k.fref
  /\ wlog' = k.wlog
  /\ last' = call

Commit(k, call) == CommitMem(k, call) /\ UNCHANGED others

Running == panicked = ""

\* ------------------------------------------------------------ what a state holds
\* the regions on the list of process p, as slots, following vm_next
RECURSIVE VmaChain(_, _)
VmaChain(v, n) ==
  IF v = 0 \/ n = 0 THEN <<>> ELSE <<v>> \o VmaChain(vmas[v].vm_next, n - 1)

VmaSeq(p) == VmaChain(vma_list[p], NVMA + 1)

\* what a region is, apart from the slot it lives in and its link
VmaInfo(v) ==
  [vm_start |-> vmas[v].vm_start, vm_end |-> vmas[v].vm_end, vm_prot |-> vmas[v].vm_prot,
   vm_flags |-> vmas[v].vm_flags, vm_file |-> vmas[v].vm_file,
   vm_file_offset |-> vmas[v].vm_file_offset]

VmaInfos(p) == [j \in 1 .. Len(VmaSeq(p)) |-> VmaInfo(VmaSeq(p)[j])]

\* the addresses [s1, e1) and [s2, e2) have an address in common
Overlap(s1, e1, s2, e2) ==
  (IF s1 > s2 THEN s1 ELSE s2) < (IF e1 < e2 THEN e1 ELSE e2)

\* the leaf entry of va in p's page table, 0 when there is none
LeafAt(w) ==
  IF w.k.pan # "" \/ w.pte = NULLPTE THEN 0
  ELSE IF HasBit(Deref(Cur, w.pte), PTE_V) THEN Deref(Cur, w.pte) ELSE 0

LeafPte(p, va) ==
  IF pagetable[p] = 0 THEN 0 ELSE LeafAt(walk(Cur, 0, pagetable[p], va, 0))

\* the leaf entries, over all page tables, that map frame f
LeafRefs(f) ==
  Cardinality({pv \in Procs \X UserPages :
                 LeafPte(pv[1], pv[2]) # 0 /\ PTE2PA(LeafPte(pv[1], pv[2])) = f * PGSIZE})

\* the bytes process p reads at page va (copyin, or a load), <<>> when not mapped
ReadPage(p, va) ==
  LET pte == LeafPte(p, va)
  IN IF pte # 0 /\ HasBit(pte, PTE_U) /\ Managed(PTE2PA(pte)) THEN mem[FN(PTE2PA(pte))]
     ELSE <<>>

\* the pages on the free list of a core, following the links at most n times
RECURSIVE FreeChain(_, _)
FreeChain(pa, n) ==
  IF pa = 0 \/ n = 0 \/ ~Managed(pa) THEN <<>>
  ELSE <<FN(pa)>> \o FreeChain(mem[FN(pa)][0], n - 1)

FreeList(c) == FreeChain(kmem[c], NFRAMES + 1)

\* how often frame f is on the free lists of all cores
OnFreeLists(f) ==
  Cardinality({ci \in CPUs \X (1 .. (NFRAMES + 1)) :
                 ci[2] <= Len(FreeList(ci[1])) /\ FreeList(ci[1])[ci[2]] = f})

\* the n pages the boot core takes before the first process runs
RECURSIVE boot_kalloc(_, _)
boot_kalloc(k, n) == IF n = 0 THEN k ELSE boot_kalloc(kalloc(k, 0).k, n - 1)

\* the state after kinit and the boot-time allocations
InitState(boot) ==
  LET k0 == [mem |-> [f \in Frames |-> ZeroPage], ref |-> [f \in Frames |-> 0],
             kmem |-> [c \in CPUs |-> 0], pagetable |-> [p \in Procs |-> 0],
             sz |-> [p \in Procs |-> 0], pan |-> "",
             vmas |-> [i \in Slots |-> ZeroVma], vma_list |-> [p \in Procs |-> 0],
             fref |-> [f \in Files |-> 1],
             wlog |-> <<>>]
      k == boot_kalloc(kinit_loop(k0, PGROUNDUP(end)), boot)
  IN /\ mem = k.mem
     /\ page_refcounts = k.ref
     /\ kmem = k.kmem
     /\ pagetable = k.pagetable
     /\ sz = k.sz
     /\ panicked = ""
     /\ nextpid = 1
     /\ ncalls = 0
     /\ vmas = k.vmas
     /\ vma_list = k.vma_list
     /\ fref = k.fref
     /\ wlog = <<>>
     /\ last = Call("kinit", 0, 0, 0, 0)
     /\ held = {}
     /\ kcore = [c \in CPUs |-> [pc |-> "idle", i |-> 0, pa |-> 0, r |-> 0]]
     /\ klock = [c \in CPUs |-> -1]
     /\ sawempty = [c \in CPUs |-> FALSE]
     /\ bcache = binit
     /\ bio = [p \in BProcs |-> IdleProc]
     /\ nic = e1000_init
     /\ pp = PingPongStart

Init == InitState(BootPages)

\* the first unused process gets its page table (allocproc: allocpid,
\* proc_pagetable -> uvmcreate)
ProcCreateUpTo(p, maxpid) ==
  /\ Running /\ pagetable[p] = 0 /\ nextpid <= maxpid
  /\ \A q \in Procs : q < p => pagetable[q] # 0
  /\ nextpid' = nextpid + 1
  /\ UNCHANGED ncalls
  /\ \E c \in {uvmcreate(Cur, mycpu(p))} :
        Commit([c.k EXCEPT !.pagetable[p] = c.pa], Call("uvmcreate", p, 0, 0, c.pa))

ProcCreate(p) == ProcCreateUpTo(p, MaxPid)

\* the permissions uvmalloc is called with: PTE_W by growproc, PTE_X by exec for
\* a segment of program text
XPerms == {PTE_W, PTE_X}

\* the process grows by one page, up to the given number of pages (sbrk:
\* growproc -> uvmalloc; exec -> uvmalloc)
UvmAllocUpTo(p, xperm, pages) ==
  /\ Running /\ pagetable[p] # 0 /\ sz[p] + PGSIZE <= pages * PGSIZE
  /\ UNCHANGED <<nextpid, ncalls>>
  /\ \E c \in {uvmalloc(Cur, mycpu(p), pagetable[p], sz[p], sz[p] + PGSIZE, xperm)} :
        Commit(IF c.r # 0 /\ c.k.pan = "" THEN [c.k EXCEPT !.sz[p] = c.r] ELSE c.k,
               Call("uvmalloc", p, sz[p], 0, c.r))

UvmAlloc(p, xperm) == UvmAllocUpTo(p, xperm, MaxSzPages)

\* fork copies the parent's memory into the new process
UvmCopy(p, np) ==
  /\ Running /\ p # np /\ pagetable[p] # 0 /\ pagetable[np] # 0
  /\ sz[p] > 0 /\ sz[np] = 0
  /\ UNCHANGED <<nextpid, ncalls>>
  /\ \E c \in {uvmcopy(Cur, mycpu(p), pagetable[p], pagetable[np], sz[p])} :
        Commit(IF c.r = 0 /\ c.k.pan = "" THEN [c.k EXCEPT !.sz[np] = sz[p]] ELSE c.k,
               Call("uvmcopy", p, np, sz[p], c.r))

\* the store page fault of a page of the process
UvmWalkCow(p, va) ==
  /\ Running /\ pagetable[p] # 0 /\ va < sz[p]
  /\ UNCHANGED <<nextpid, ncalls>>
  /\ \E c \in {uvmwalkcow(Cur, mycpu(p), pagetable[p], va)} :
        Commit(c.k, Call("uvmwalkcow", p, va, 0, IF c.pte = NULLPTE THEN 0 ELSE 1))

\* a system call writes its result to the process's memory
CopyOut(p, dstva, len) ==
  /\ Running /\ pagetable[p] # 0 /\ dstva < sz[p]
  /\ UNCHANGED <<nextpid, ncalls>>
  /\ \E c \in {copyout(Cur, mycpu(p), pagetable[p], dstva, DataOf(p), len)} :
        Commit(c.k, Call("copyout", p, dstva, len, c.r))

\* a store instruction of the process: the hardware walks the page table, needs
\* a valid, user, writable leaf, sets its dirty bit and writes the word
Store(p, va) ==
  /\ Running /\ pagetable[p] # 0
  /\ UNCHANGED <<nextpid, ncalls>>
  /\ \E w \in {walk(Cur, 0, pagetable[p], va, 0)} :
        /\ w.k.pan = "" /\ w.pte # NULLPTE
        /\ HasBit(Deref(Cur, w.pte), PTE_V) /\ HasBit(Deref(Cur, w.pte), PTE_U)
        /\ HasBit(Deref(Cur, w.pte), PTE_W)
        /\ Managed(PTE2PA(Deref(Cur, w.pte)))
        /\ Commit(memmove_words(SetPte(Cur, w.pte, SetBit(Deref(Cur, w.pte), PTE_D)),
                                PTE2PA(Deref(Cur, w.pte)), WORDSZ, DataOf(p)),
                  Call("store", p, va, 0, 0))

\* exit: the process's memory and page table are freed (freeproc -> uvmfree)
UvmFree(p) ==
  /\ Running /\ pagetable[p] # 0 /\ vma_list[p] = 0
  /\ UNCHANGED <<nextpid, ncalls>>
  /\ \E k \in {uvmfree(Cur, mycpu(p), pagetable[p], sz[p])} :
        Commit(IF k.pan = "" THEN [k EXCEPT !.pagetable[p] = 0, !.sz[p] = 0] ELSE k,
               Call("uvmfree", p, sz[p], 0, 0))

\* the mmap and munmap calls and mmap page faults of one run
MaxCalls == 5

\* the lengths, protections and sharing modes of the mmap and munmap calls made;
\* a new region stays above the largest heap, MaxSzPages pages
MmapPages == {va \in UserPages : va >= (MaxSzPages - 1) * PGSIZE /\ va < USYSCALL}
UnmapLens == {0, 100, PGSIZE, 2 * PGSIZE + 100}
\* length, protection, sharing mode
MapCalls ==
  {<<0, PROT_READ + PROT_WRITE, MAP_SHARED>>,
   <<100, PROT_READ, MAP_PRIVATE>>,
   <<PGSIZE, PROT_READ + PROT_WRITE, MAP_SHARED>>,
   <<2 * PGSIZE + 100, PROT_READ + PROT_WRITE, MAP_SHARED>>}
MapOffsets == {PGSIZE}
\* the file the regions of these calls map
MapFiles == {1}

\* sys_mmap
Mmap(p, len, prot, flags, fd, offset) ==
  /\ Running /\ pagetable[p] # 0
  /\ len + MaxSzPages * PGSIZE
       <= (IF vma_list[p] # 0 THEN vmas[vma_list[p]].vm_start ELSE USYSCALL)
  /\ ncalls < MaxCalls
  /\ UNCHANGED nextpid
  /\ ncalls' = ncalls + 1
  /\ \E c \in {mmap(Cur, p, len, prot, flags, fd, offset)} :
        Commit(c.k, Call("mmap", p, 0, 0, c.r))

\* sys_munmap
Munmap(p, addr, len) ==
  /\ Running /\ pagetable[p] # 0
  /\ ncalls < MaxCalls
  /\ UNCHANGED nextpid
  /\ ncalls' = ncalls + 1
  /\ Commit(munmap(Cur, p, addr, len), Call("munmap", p, 0, 0, 0))

\* exit releases every region of the process
MunmapAll(p) ==
  /\ Running /\ pagetable[p] # 0 /\ vma_list[p] # 0
  /\ ncalls < MaxCalls
  /\ UNCHANGED nextpid
  /\ ncalls' = ncalls + 1
  /\ Commit(munmap_all(Cur, p, 2 * NVMA), Call("munmap_all", p, 0, 0, 0))

\* fork gives the new process a copy of the parent's regions
MmapCopy(p, np) ==
  /\ Running /\ p # np /\ pagetable[p] # 0 /\ pagetable[np] # 0
  /\ vma_list[p] # 0 /\ vma_list[np] = 0
  /\ ncalls < MaxCalls
  /\ UNCHANGED nextpid
  /\ ncalls' = ncalls + 1
  /\ Commit(mmap_copy(Cur, p, np), Call("mmap_copy", p, 0, 0, 0))

\* the page fault of an address that has no leaf entry
MmapFault(p, va) ==
  /\ Running /\ pagetable[p] # 0
  /\ LeafPte(p, va) = 0
  /\ ncalls < MaxCalls
  /\ UNCHANGED nextpid
  /\ ncalls' = ncalls + 1
  /\ \E c \in {mmap_page_fault_handler(Cur, p, va)} :
        Commit(c.k, Call("mmap_page_fault_handler", p, 0, 0, c.r))

\* the steps of fork, copy-on-write and exit
Next ==
  \/ \E p \in Procs : ProcCreate(p)
  \/ \E p \in Procs, xperm \in XPerms : UvmAlloc(p, xperm)
  \/ \E p \in Procs, np \in Procs : UvmCopy(p, np)
  \/ \E p \in Procs, va \in UserPages : UvmWalkCow(p, va)
  \/ \E p \in Procs, va \in UserPages, len \in {WORDSZ, PGSIZE + WORDSZ} :
        CopyOut(p, va, len)
  \/ \E p \in Procs, va \in UserPages : Store(p, va)
  \/ \E p \in Procs : UvmFree(p)

Spec == Init /\ [][Next]_vars

\* processes created in a run in which the slot of a process that has exited is
\* used again
MaxRespawn == 3

\* fork, store page faults and exit, with a process created after another exited
NextReuse ==
  \/ \E p \in Procs : ProcCreateUpTo(p, MaxRespawn)
  \/ \E p \in Procs : UvmAlloc(p, PTE_W)
  \/ \E p \in Procs, np \in Procs : UvmCopy(p, np)
  \/ \E p \in Procs, va \in UserPages : UvmWalkCow(p, va)
  \/ \E p \in Procs : UvmFree(p)

SpecReuse == Init /\ [][NextReuse]_vars

\* the steps of the mmap regions
NextVma ==
  \/ \E p \in Procs : ProcCreate(p)
  \/ \E p \in Procs, m \in MapCalls, fd \in MapFiles, off \in MapOffsets :
        Mmap(p, m[1], m[2], m[3], fd, off)
  \/ \E p \in Procs, addr \in MmapPages, len \in UnmapLens : Munmap(p, addr, len)
  \/ \E p \in Procs : MunmapAll(p)
  \/ \E p \in Procs, np \in Procs : MmapCopy(p, np)
  \/ \E p \in Procs, va \in MmapPages : MmapFault(p, va)
  \/ \E p \in Procs, va \in UserPages : Store(p, va)
  \/ \E p \in Procs : UvmFree(p)

SpecVma == Init /\ [][NextVma]_vars

\* ------------------------------------------------------------ direct calls
\* pages kernel code holds at one time (kernel stacks, pipes, trap frames)
MaxHeld == 1
\* direct calls of one run
MaxDirect == 3
\* addresses kfree is called with that are no page of the allocator: not
\* aligned, below end, at PHYSTOP
BadAddrs == {0, 2 * PGSIZE + 100, PHYSTOP}

\* walk called directly (walkaddr, the trap handler)
Walk(p, va, alloc) ==
  /\ Running /\ pagetable[p] # 0
  /\ ncalls < MaxDirect
  /\ UNCHANGED nextpid
  /\ ncalls' = ncalls + 1
  /\ \E w \in {walk(Cur, mycpu(p), pagetable[p], va, alloc)} :
        Commit(w.k, Call("walk", p, va, alloc, IF w.pte = NULLPTE THEN 0 ELSE 1))

\* kernel code on core c takes a page for its own use
Kalloc(c) ==
  /\ Running /\ Cardinality(held) < MaxHeld
  /\ ncalls < MaxDirect
  /\ UNCHANGED nextpid
  /\ ncalls' = ncalls + 1
  /\ \E a \in {kalloc(Cur, c)} :
        /\ CommitMem(a.k, Call("kalloc", c, 0, 0, a.pa))
        /\ held' = IF a.pa # 0 THEN held \cup {a.pa} ELSE held
        /\ UNCHANGED conc

\* kernel code on core c gives back a page it holds, or calls kfree with an
\* address that is no page
Kfree(c, pa) ==
  /\ Running /\ pa \in held \cup BadAddrs
  /\ ncalls < MaxDirect
  /\ UNCHANGED nextpid
  /\ ncalls' = ncalls + 1
  /\ CommitMem(kfree(Cur, c, pa), Call("kfree", c, pa, 0, 0))
  /\ held' = held \ {pa}
  /\ UNCHANGED conc

\* the steps of the page-table and allocator functions called one by one
NextPt ==
  \/ \E p \in Procs : ProcCreate(p)
  \/ \E p \in Procs : UvmAlloc(p, PTE_W)
  \/ \E p \in Procs, np \in Procs : UvmCopy(p, np)
  \/ \E p \in Procs, va \in UserPages, alloc \in {0, 1} : Walk(p, va, alloc)
  \/ \E c \in CPUs : Kalloc(c)
  \/ \E c \in CPUs, pa \in {f * PGSIZE : f \in Frames} \cup BadAddrs : Kfree(c, pa)
  \/ \E p \in Procs : UvmFree(p)

SpecPt == Init /\ [][NextPt]_vars

\* the largest p->sz of a process that forks, in pages
ForkSzPages == 3

\* the steps of fork on a machine whose memory the kernel has not used at boot
NextFork ==
  \/ \E p \in Procs : ProcCreate(p)
  \/ \E p \in Procs, xperm \in XPerms : UvmAllocUpTo(p, xperm, ForkSzPages)
  \/ \E p \in Procs, np \in Procs : UvmCopy(p, np)
  \/ \E c \in CPUs : Kalloc(c)
  \/ \E p \in Procs : UvmFree(p)

SpecFork == InitState(0) /\ [][NextFork]_vars

\* the pages one uvmunmap call is asked to remove
UnmapPages == 3

\* uvmunmap called directly (uvmdealloc, proc_freepagetable, the failure paths)
UvmUnmap(p, va, npages, do_free) ==
  /\ Running /\ pagetable[p] # 0 /\ va + npages * PGSIZE <= MAXVA
  /\ ncalls < MaxDirect
  /\ UNCHANGED nextpid
  /\ ncalls' = ncalls + 1
  /\ Commit(uvmunmap(Cur, mycpu(p), pagetable[p], va, npages, do_free),
            Call("uvmunmap", p, va, npages, do_free))

\* freewalk called directly on the tree of a process (proc_freepagetable after
\* its pages are unmapped)
FreeWalk(p) ==
  /\ Running /\ pagetable[p] # 0 /\ vma_list[p] = 0
  /\ ncalls < MaxDirect
  /\ UNCHANGED nextpid
  /\ ncalls' = ncalls + 1
  /\ \E k \in {freewalk(Cur, mycpu(p), pagetable[p], 0)} :
        Commit(IF k.pan = "" THEN [k EXCEPT !.pagetable[p] = 0, !.sz[p] = 0] ELSE k,
               Call("freewalk", p, pagetable[p], sz[p], 0))

\* the steps that build page-table trees and take them down piece by piece
NextUnmap ==
  \/ \E p \in Procs : ProcCreate(p)
  \/ \E p \in Procs : UvmAllocUpTo(p, PTE_W, ForkSzPages)
  \/ \E p \in Procs, np \in Procs : UvmCopy(p, np)
  \/ \E p \in Procs, va \in UserPages : UvmWalkCow(p, va)
  \/ \E c \in CPUs : Kalloc(c)
  \/ \E p \in Procs, va \in UserPages, npages \in 1 .. UnmapPages, do_free \in {0, 1} :
        UvmUnmap(p, va, npages, do_free)
  \/ \E p \in Procs : FreeWalk(p)
  \/ \E p \in Procs : UvmFree(p)

SpecUnmap == Init /\ [][NextUnmap]_vars

\* ------------------------------------------------------------ cores in parallel
\* kalloc and kfree run on all cores at once.  A step is what a core does
\* between two points at which another core can see or change what it works on:
\* taking a lock, the work under the lock up to its release, an atomic update.
\* the frames left to the allocator after boot
PoolPages == 2

IdleCore == [pc |-> "idle", i |-> 0, pa |-> 0, r |-> 0]
AllEmpty(km) == \A c \in CPUs : km[c] = 0

\* what a step leaves alone when it works on the allocator only
ptvars ==
  <<pagetable, sz, panicked, nextpid, ncalls, vmas, vma_list, fref, wlog, bcache, bio, nic, pp>>

\* sawempty after a step that leaves the free lists as km and the cores as kc
SawAfter(km, kc) ==
  [d \in CPUs |-> kc[d].pc \in {"scan", "locked"} /\ (sawempty[d] \/ AllEmpty(km))]

\* kalloc: push_off, my_cpuid = cpuid(), i = my_cpuid
KallocEnter(c) ==
  /\ Running /\ kcore[c].pc = "idle" /\ Cardinality(held) < PoolPages
  /\ kcore' = [kcore EXCEPT ![c] = [pc |-> "scan", i |-> c, pa |-> 0, r |-> 0]]
  /\ sawempty' = SawAfter(kmem, kcore')
  /\ UNCHANGED <<mem, page_refcounts, kmem, held, klock, last, ptvars>>

\* kalloc: acquire(&cpu_mem->lock)
KallocAcquire(c) ==
  /\ kcore[c].pc = "scan" /\ klock[kcore[c].i] = -1
  /\ klock' = [klock EXCEPT ![kcore[c].i] = c]
  /\ kcore' = [kcore EXCEPT ![c].pc = "locked"]
  /\ UNCHANGED <<mem, page_refcounts, kmem, held, sawempty, last, ptvars>>

\* the next core of the scan
NextCore(i) == IF i + 1 = NCPU THEN 0 ELSE i + 1

\* a kalloc that leaves the lock of an empty pool held when it moves on
kalloc_release_not_when_empty(i) ==
  IF kmem[i] = 0 THEN klock ELSE [klock EXCEPT ![i] = -1]

\* kalloc: release(&cpu_mem->lock), on either path of the loop body
kalloc_release(i) == [klock EXCEPT ![i] = -1]

\* kalloc, one turn of the loop under the lock of kmem[i]: an empty list sends
\* the scan to the next core, or ends the call with 0 when that is the first one;
\* otherwise the first page leaves the list and is returned with refcount 1
KallocTry(c) ==
  /\ kcore[c].pc = "locked"
  /\ klock' = kalloc_release(kcore[c].i)
  /\ \E a \in {kalloc_scan(Cur, kcore[c].i, 1)} :
        /\ mem' = a.k.mem /\ page_refcounts' = a.k.ref /\ kmem' = a.k.kmem
        /\ kcore' = [kcore EXCEPT ![c] =
                       IF a.pa # 0 THEN [IdleCore EXCEPT !.r = a.pa]
                       ELSE IF NextCore(kcore[c].i) = c THEN IdleCore
                       ELSE [pc |-> "scan", i |-> NextCore(kcore[c].i), pa |-> 0, r |-> 0]]
        /\ held' = IF a.pa # 0 THEN held \cup {a.pa} ELSE held
        /\ sawempty' = SawAfter(a.k.kmem, kcore')
        /\ last' = IF kcore'[c].pc = "idle"
                     THEN Call("kalloc", c, 0, IF sawempty[c] THEN 1 ELSE 0, a.pa)
                   ELSE last
  /\ UNCHANGED ptvars

\* kfree of a page the kernel holds: the checks and the atomic decrement
KfreeEnter(c, pa) ==
  /\ Running /\ kcore[c].pc = "idle" /\ pa \in held /\ Managed(pa)
  /\ held' = held \ {pa}
  /\ page_refcounts' = [page_refcounts EXCEPT ![FN(pa)] = (@ + UintMod - 1) % UintMod]
  /\ kcore' = [kcore EXCEPT ![c] =
                 IF page_refcounts'[FN(pa)] > 0 THEN IdleCore
                 ELSE [pc |-> "free", i |-> c, pa |-> pa, r |-> 0]]
  /\ last' = IF kcore'[c].pc = "idle" THEN Call("kfree", c, pa, 0, 0) ELSE last
  /\ UNCHANGED <<mem, kmem, klock, sawempty, ptvars>>

\* kfree: the memset, push_off and, in kunchecked_free, acquire(&cpu_mem->lock)
KfreeAcquire(c) ==
  /\ kcore[c].pc = "free" /\ klock[c] = -1
  /\ klock' = [klock EXCEPT ![c] = c]
  /\ mem' = [mem EXCEPT ![FN(kcore[c].pa)] = JunkPage(JUNK_FREE)]
  /\ kcore' = [kcore EXCEPT ![c].pc = "freelocked"]
  /\ UNCHANGED <<page_refcounts, kmem, held, sawempty, last, ptvars>>

\* kunchecked_free under the lock: the page goes on the list of this core
KfreePush(c) ==
  /\ kcore[c].pc = "freelocked"
  /\ klock' = [klock EXCEPT ![c] = -1]
  /\ \E k \in {kunchecked_free(Cur, c, kcore[c].pa)} :
        /\ mem' = k.mem /\ kmem' = k.kmem
        /\ kcore' = [kcore EXCEPT ![c] = IdleCore]
        /\ sawempty' = SawAfter(k.kmem, kcore')
  /\ last' = Call("kfree", c, kcore[c].pa, 0, 0)
  /\ UNCHANGED <<page_refcounts, held, ptvars>>

NextKalloc ==
  \/ \E c \in CPUs : KallocEnter(c)
  \/ \E c \in CPUs : KallocAcquire(c)
  \/ \E c \in CPUs : KallocTry(c)
  \/ \E c \in CPUs, pa \in {f * PGSIZE : f \in Frames} : KfreeEnter(c, pa)
  \/ \E c \in CPUs : KfreeAcquire(c)
  \/ \E c \in CPUs : KfreePush(c)

SpecKalloc == InitState(NFRAMES - PoolPages) /\ [][NextKalloc]_vars

\* a core inside kalloc or kfree keeps running, and a core that spins on a lock
\* that is released again and again gets it
KallocFairness ==
  \A c \in CPUs :
    /\ SF_vars(KallocAcquire(c)) /\ WF_vars(KallocTry(c))
    /\ SF_vars(KfreeAcquire(c)) /\ WF_vars(KfreePush(c))

SpecKallocFair == SpecKalloc /\ KallocFairness

\* ------------------------------------------------------------ vmas[], cores in parallel
\* vma_alloc and vma_free run on all cores at once, without a lock.  kcore[c].i
\* is the slot the loop of vma_alloc looks at, kcore[c].r the slot it returned,
\* kcore[c].pa the slot vma_free works on; held has the pair <<c, v>> while the
\* kernel on core c uses slot v, from the return of vma_alloc to the call of
\* vma_free.
\* what a step on the slots leaves alone
slotrest ==
  <<mem, page_refcounts, kmem, pagetable, sz, nextpid, vma_list, fref, wlog,
    klock, sawempty, bcache, bio, nic, pp>>

\* vma_alloc calls of one run
MaxSlotCalls == 5

\* a claim that stores 1 without comparing
vma_alloc_store_only(vm, i) == [vmas |-> [vm EXCEPT ![i].used = 1], ok |-> TRUE]

\* __sync_bool_compare_and_swap(&vmas[i].used, 0, 1): [vmas, ok]
vma_alloc_cas(vm, i) ==
  IF vm[i].used = 0 THEN [vmas |-> [vm EXCEPT ![i].used = 1], ok |-> TRUE]
  ELSE [vmas |-> vm, ok |-> FALSE]

\* the region the kernel writes into a slot it got
SlotRegion ==
  [vm_start |-> PGSIZE, vm_end |-> 2 * PGSIZE, vm_prot |-> PROT_READ,
   vm_flags |-> MAP_PRIVATE, vm_next |-> 0, vm_file |-> 1, vm_file_offset |-> 0,
   used |-> 1]

\* vma_alloc is called: i = 0
VmaAllocEnter(c) ==
  /\ Running /\ kcore[c].pc = "idle" /\ ncalls < MaxSlotCalls
  /\ ncalls' = ncalls + 1
  /\ kcore' = [kcore EXCEPT ![c] = [pc |-> "vma_alloc", i |-> 1, pa |-> 0, r |-> 0]]
  /\ UNCHANGED <<vmas, held, panicked, last, slotrest>>

\* vma_alloc, one turn of the loop: the compare-and-swap on the used flag of
\* slot i; after the last slot, the panic
VmaAllocCas(c) ==
  /\ Running /\ kcore[c].pc = "vma_alloc"
  /\ IF kcore[c].i > NVMA
       THEN /\ panicked' = "vma_alloc: no free vmas"
            /\ last' = Call("vma_alloc", c, 0, 0, 0)
            /\ UNCHANGED <<vmas, kcore>>
     ELSE \E a \in {vma_alloc_cas(vmas, kcore[c].i)} :
            /\ vmas' = a.vmas
            /\ kcore' = [kcore EXCEPT ![c] =
                           IF a.ok THEN [pc |-> "vma_init", i |-> 0, pa |-> 0, r |-> kcore[c].i]
                           ELSE [@ EXCEPT !.i = @ + 1]]
            /\ UNCHANGED <<panicked, last>>
  /\ UNCHANGED <<held, ncalls, slotrest>>

\* the caller of vma_alloc fills in the slot it got (mmap, munmap, mmap_copy)
VmaInit(c) ==
  /\ Running /\ kcore[c].pc = "vma_init"
  /\ vmas' = [vmas EXCEPT ![kcore[c].r] = [SlotRegion EXCEPT !.used = vmas[kcore[c].r].used]]
  /\ held' = held \cup {<<c, kcore[c].r>>}
  /\ kcore' = [kcore EXCEPT ![c] = IdleCore]
  /\ last' = Call("vma_alloc", c, 0, 0, 0)
  /\ UNCHANGED <<panicked, ncalls, slotrest>>

\* vma_free is called on a slot the kernel on this core uses
VmaFreeEnter(c, v) ==
  /\ Running /\ kcore[c].pc = "idle" /\ <<c, v>> \in held
  /\ held' = held \ {<<c, v>>}
  /\ kcore' = [kcore EXCEPT ![c] = [pc |-> "vma_free", i |-> 0, pa |-> v, r |-> 0]]
  /\ UNCHANGED <<vmas, panicked, last, ncalls, slotrest>>

\* vma_free, *vma = (const struct vm_area){0}: plain stores that race with the
\* compare-and-swap of the other cores; the store to the used flag and the
\* stores to the other fields reach memory in either order.  kcore[c].i is 0
\* before the first store, 1 when the used flag is stored, 2 when the other
\* fields are
VmaFreeStore(c, used_flag) ==
  /\ Running /\ kcore[c].pc = "vma_free"
  /\ kcore[c].i \in (IF used_flag THEN {0, 2} ELSE {0, 1})
  /\ vmas' = [vmas EXCEPT ![kcore[c].pa] =
                IF used_flag THEN [@ EXCEPT !.used = 0]
                ELSE [ZeroVma EXCEPT !.used = vmas[kcore[c].pa].used]]
  /\ kcore' = [kcore EXCEPT ![c] =
                 IF kcore[c].i = 0 THEN [@ EXCEPT !.i = IF used_flag THEN 1 ELSE 2]
                 ELSE IdleCore]
  /\ last' = IF kcore[c].i = 0 THEN last ELSE Call("vma_free", c, 0, 0, 0)
  /\ UNCHANGED <<held, panicked, ncalls, slotrest>>

NextSlots ==
  \/ \E c \in CPUs : VmaAllocEnter(c)
  \/ \E c \in CPUs : VmaAllocCas(c)
  \/ \E c \in CPUs : VmaInit(c)
  \/ \E c \in CPUs, v \in Slots : VmaFreeEnter(c, v)
  \/ \E c \in CPUs, used_flag \in BOOLEAN : VmaFreeStore(c, used_flag)

SpecSlots == Init /\ [][NextSlots]_vars

\* ------------------------------------------------------------ bio.c, processes in parallel
\* what a step of the buffer cache leaves alone
biorest ==
  <<mem, page_refcounts, kmem, pagetable, sz, nextpid, vmas, vma_list, fref, wlog,
    last, held, kcore, klock, sawempty, nic, pp>>

\* bget: the bucket of the block process p asks for
Bucket(p) == bio[p].blockno % NBUCKET

\* bget: ++victim, looping around
NextVictim(t) == IF t + 1 = NBUCKET THEN 0 ELSE t + 1

\* the bread calls of one run
MaxBread == 4

\* a bget that keeps the lock of its bucket when it has found no buf there
bget_miss_keep(bc, t) == bc

\* bget: release(&bucket->lock) when the bucket has neither the block nor a free
\* buf
bget_miss_release(bc, t) == [bc EXCEPT !.tlock[t] = 0]

\* bread(dev, blockno) calls bget, which finds its bucket
BreadCall(p, dev, blockno) ==
  /\ Running /\ bio[p].pc = "idle" /\ ncalls < MaxBread
  /\ ncalls' = ncalls + 1
  /\ bio' = [bio EXCEPT ![p] = [IdleProc EXCEPT !.pc = "lock1", !.dev = dev,
                                                !.blockno = blockno]]
  /\ UNCHANGED <<bcache, panicked, biorest>>

\* bget: acquire(&bucket->lock)
BgetAcquire(p) ==
  /\ Running /\ bio[p].pc = "lock1" /\ bcache.tlock[Bucket(p)] = 0
  /\ bcache' = [bcache EXCEPT !.tlock[Bucket(p)] = p]
  /\ bio' = [bio EXCEPT ![p].pc = "scan"]
  /\ UNCHANGED <<ncalls, panicked, biorest>>

\* bget under the bucket lock: the two loops over the list of the bucket.  A hit
\* reads refcnt for b->refcnt++; a free buf is taken and the lock released; with
\* neither the lock is released
BgetScan(p) ==
  /\ Running /\ bio[p].pc = "scan"
  /\ \E hit \in {bget_find(bcache, bcache.head[Bucket(p)], bio[p].dev, bio[p].blockno)},
        free \in {bget_free(bcache, bcache.head[Bucket(p)])} :
        IF hit # NoBuf
          THEN /\ bio' = [bio EXCEPT ![p].pc = "hit", ![p].b = hit,
                                     ![p].tmp = bcache.buf[hit].refcnt]
               /\ UNCHANGED bcache
        ELSE IF free # NoBuf
          THEN /\ bcache' = [bget_assign(bcache, free, bio[p].dev, bio[p].blockno)
                               EXCEPT !.tlock[Bucket(p)] = 0]
               /\ bio' = [bio EXCEPT ![p].pc = "sleep", ![p].b = free]
        ELSE /\ bcache' = bget_miss_release(bcache, Bucket(p))
             /\ bio' = [bio EXCEPT ![p].pc = "lockg"]
  /\ UNCHANGED <<ncalls, panicked, biorest>>

\* bget, hit: b->refcnt++ stores what it read plus one, release(&bucket->lock)
BgetHit(p) ==
  /\ Running /\ bio[p].pc = "hit"
  /\ bcache' = [bcache EXCEPT !.buf[bio[p].b].refcnt = (bio[p].tmp + 1) % UintMod,
                              !.tlock[Bucket(p)] = 0]
  /\ bio' = [bio EXCEPT ![p].pc = bget_hit_next]
  /\ UNCHANGED <<ncalls, panicked, biorest>>

\* bget: acquire(&bcache.lock)
BgetAcquireAll(p) ==
  /\ Running /\ bio[p].pc = "lockg" /\ bcache.lock = 0
  /\ bcache' = [bcache EXCEPT !.lock = p]
  /\ bio' = [bio EXCEPT ![p].pc = "lock2"]
  /\ UNCHANGED <<ncalls, panicked, biorest>>

\* bget: acquire(&bucket->lock) again, victim = bucket, the first ++victim
BgetReacquire(p) ==
  /\ Running /\ bio[p].pc = "lock2" /\ bcache.tlock[Bucket(p)] = 0
  /\ bcache' = [bcache EXCEPT !.tlock[Bucket(p)] = p]
  /\ bio' = [bio EXCEPT ![p].pc = "lockv", ![p].victim = NextVictim(Bucket(p))]
  /\ panicked' = IF NextVictim(Bucket(p)) = Bucket(p) THEN "bget: no buffers" ELSE panicked
  /\ UNCHANGED <<ncalls, biorest>>

\* bget: acquire(&victim->lock)
BgetAcquireVictim(p) ==
  /\ Running /\ bio[p].pc = "lockv" /\ bcache.tlock[bio[p].victim] = 0
  /\ bcache' = [bcache EXCEPT !.tlock[bio[p].victim] = p]
  /\ bio' = [bio EXCEPT ![p].pc = "steal"]
  /\ UNCHANGED <<ncalls, panicked, biorest>>

\* bget under the three locks: the first unused buf of the victim is taken, moved
\* to the bucket and the locks are released; without one the victim is unlocked
\* and the next victim is tried, the kernel panics when that is the bucket
BgetSteal(p) ==
  /\ Running /\ bio[p].pc = "steal"
  /\ \E curr \in {bget_free(bcache, bcache.head[bio[p].victim])} :
        IF curr # NoBuf
          THEN /\ bcache' = [bget_move(bget_assign(bcache, curr, bio[p].dev, bio[p].blockno),
                                       curr, bio[p].victim, Bucket(p))
                               EXCEPT !.tlock[Bucket(p)] = 0, !.tlock[bio[p].victim] = 0,
                                      !.lock = 0]
               /\ bio' = [bio EXCEPT ![p].pc = "sleep", ![p].b = curr]
               /\ UNCHANGED panicked
        ELSE /\ bcache' = [bcache EXCEPT !.tlock[bio[p].victim] = 0]
             /\ bio' = [bio EXCEPT ![p].pc = "lockv",
                                   ![p].victim = NextVictim(bio[p].victim)]
             /\ panicked' = IF NextVictim(bio[p].victim) = Bucket(p)
                              THEN "bget: no buffers" ELSE panicked
  /\ UNCHANGED <<ncalls, biorest>>

\* bget: acquiresleep(&b->lock) and return; bread reads the block from the disk
\* when the buf is not valid
BgetSleep(p) ==
  /\ Running /\ bio[p].pc = "sleep" /\ acquiresleep_free(bcache, bio[p].b)
  /\ bcache' = [bcache EXCEPT !.buf[bio[p].b].locked = p, !.buf[bio[p].b].valid = 1]
  /\ bio' = [bio EXCEPT ![p].pc = "hold"]
  /\ UNCHANGED <<ncalls, panicked, biorest>>

\* brelse: holdingsleep, then b->refcnt-- reads refcnt, without a spinlock
BrelseRead(p) ==
  /\ Running /\ bio[p].pc = "hold"
  /\ bio' = [bio EXCEPT ![p].pc = "dec", ![p].tmp = bcache.buf[bio[p].b].refcnt]
  /\ panicked' = IF bcache.buf[bio[p].b].locked = p THEN panicked ELSE "brelse"
  /\ UNCHANGED <<ncalls, bcache, biorest>>

\* brelse: b->refcnt-- stores what it read minus one
BrelseWrite(p) ==
  /\ Running /\ bio[p].pc = "dec"
  /\ bcache' = [bcache EXCEPT !.buf[bio[p].b].refcnt = (bio[p].tmp + UintMod - 1) % UintMod]
  /\ bio' = [bio EXCEPT ![p].pc = "unlock"]
  /\ UNCHANGED <<ncalls, panicked, biorest>>

\* brelse: releasesleep(&b->lock)
BrelseUnlock(p) ==
  /\ Running /\ bio[p].pc = "unlock"
  /\ bcache' = [bcache EXCEPT !.buf[bio[p].b].locked = 0]
  /\ bio' = [bio EXCEPT ![p] = IdleProc]
  /\ UNCHANGED <<ncalls, panicked, biorest>>

NextBio ==
  \/ \E p \in BProcs, dev \in Devs, blockno \in Blocks : BreadCall(p, dev, blockno)
  \/ \E p \in BProcs : BgetAcquire(p)
  \/ \E p \in BProcs : BgetScan(p)
  \/ \E p \in BProcs : BgetHit(p)
  \/ \E p \in BProcs : BgetAcquireAll(p)
  \/ \E p \in BProcs : BgetReacquire(p)
  \/ \E p \in BProcs : BgetAcquireVictim(p)
  \/ \E p \in BProcs : BgetSteal(p)
  \/ \E p \in BProcs : BgetSleep(p)
  \/ \E p \in BProcs : BrelseRead(p)
  \/ \E p \in BProcs : BrelseWrite(p)
  \/ \E p \in BProcs : BrelseUnlock(p)

SpecBio == Init /\ [][NextBio]_vars

\* a process inside bget keeps running, and a process that spins on a lock that
\* is released again and again gets it
BioFairness ==
  \A p \in BProcs :
    /\ SF_vars(BgetAcquire(p)) /\ SF_vars(BgetAcquireAll(p))
    /\ SF_vars(BgetReacquire(p)) /\ SF_vars(BgetAcquireVictim(p))
    /\ WF_vars(BgetScan(p)) /\ WF_vars(BgetHit(p)) /\ WF_vars(BgetSteal(p))

SpecBioFair == SpecBio /\ BioFairness

\* the arguments of mmap calls that the kernel may have to reject
MaxArgCalls == 2
ArgLens == {100, PGSIZE}
ArgProts == {PROT_READ, PROT_WRITE, PROT_READ + PROT_WRITE, PROT_EXEC}
ArgFlags == {MAP_SHARED, MAP_PRIVATE}
ArgOffsets == {0, 100, PGSIZE}

\* the steps of mmap calls with any arguments
NextMmapArgs ==
  \/ \E p \in Procs : ProcCreate(p)
  \/ \E p \in Procs, len \in ArgLens, prot \in ArgProts, flags \in ArgFlags, fd \in Files,
         off \in ArgOffsets :
        ncalls < MaxArgCalls /\ Mmap(p, len, prot, flags, fd, off)
  \/ \E p \in Procs : MunmapAll(p)

SpecMmapArgs == Init /\ [][NextMmapArgs]_vars

\* ------------------------------------------------------------ e1000.c, driver and device
\* what a step of the network driver or of the device leaves alone
nicrest ==
  <<mem, page_refcounts, kmem, pagetable, sz, nextpid, ncalls, vmas, vma_list, fref, wlog,
    held, kcore, klock, sawempty, bcache, bio, pp>>

\* the network stack sends a packet in a new mbuf: e1000_transmit, from
\* acquire(&e1000_tx_lock) to release
E1000Transmit ==
  /\ Running /\ nic.ntx < MaxTx
  /\ \E t \in {e1000_transmit(nic, nic.ntx + 1)} :
        /\ nic' = [t.n EXCEPT !.ntx = nic.ntx + 1,
                              !.queued = IF t.r = 0 THEN @ \cup {nic.ntx + 1} ELSE @]
        /\ last' = Call("e1000_transmit", 0, nic.ntx + 1, 0, t.r)
  /\ UNCHANGED <<panicked, nicrest>>

\* the device sends the packet of the descriptor at TDH, which is before TDT,
\* reports it done when RS asks for that and moves TDH on
DevTransmit ==
  /\ Running /\ nic.tdh # nic.tdt
  /\ nic' = [nic EXCEPT
               !.sent = @ \cup {nic.tx_addr[nic.tdh]},
               !.tx_status[nic.tdh] =
                  IF HasBit(nic.tx_cmd[nic.tdh], E1000_TXD_CMD_RS)
                    THEN SetBit(@, E1000_TXD_STAT_DD) ELSE @,
               !.tdh = tx_next(nic.tdh)]
  /\ UNCHANGED <<panicked, last, nicrest>>

NextTx ==
  \/ E1000Transmit
  \/ DevTransmit

SpecTx == Init /\ [][NextTx]_vars

\* a packet arrives: the device writes it into the mbuf of the descriptor at
\* RDH, which is before RDT, with its length, marks the descriptor done and
\* moves RDH on
DevReceive ==
  /\ Running /\ nic.rdh # nic.rdt /\ nic.npkt < MaxRx
  /\ nic' = [nic EXCEPT
               !.mdata[nic.rx_addr[nic.rdh]] = nic.npkt + 1,
               !.rx_length[nic.rdh] = PktLen(nic.npkt + 1),
               !.rx_status[nic.rdh] = SetBit(@, E1000_RXD_STAT_DD),
               !.rdh = rx_next(nic.rdh),
               !.npkt = nic.npkt + 1]
  /\ UNCHANGED <<panicked, last, nicrest>>

\* e1000_intr calls e1000_recv: acquire(&e1000_rx_lock), rx_index = RDT
E1000RecvEnter ==
  /\ Running /\ nic.rxpc = "idle"
  /\ nic' = [nic EXCEPT !.rxpc = "loop", !.rxi = nic.rdt]
  /\ last' = Call("e1000_recv", 0, nic.rdt, 0, 0)
  /\ UNCHANGED <<panicked, nicrest>>

\* e1000_recv, one turn of the loop: the descriptor after rx_index is not done,
\* and the call ends; or its mbuf goes to net_rx and mbufalloc gives the next
\* one, or has none left and the kernel panics
E1000RecvTurn ==
  /\ Running /\ nic.rxpc = "loop"
  /\ IF ~HasBit(nic.rx_status[rx_next(nic.rxi)], E1000_RXD_STAT_DD)
       THEN /\ nic' = [nic EXCEPT !.rxpc = "idle"]
            /\ UNCHANGED <<panicked, last>>
     ELSE IF nic.nmbuf = MaxMbuf
       THEN /\ nic' = [nic EXCEPT
                         !.rxlog = Append(@, [mbuf |-> nic.rx_mbufs[rx_next(nic.rxi)],
                                              data |-> nic.mdata[nic.rx_mbufs[rx_next(nic.rxi)]],
                                              len |-> nic.rx_length[rx_next(nic.rxi)]]),
                         !.rx_mbufs[rx_next(nic.rxi)] = 0,
                         !.rxi = rx_next(nic.rxi)]
            /\ panicked' = "e1000_recv"
            /\ UNCHANGED last
     ELSE /\ nic' = e1000_recv_turn(nic, rx_next(nic.rxi), nic.nmbuf + 1)
          /\ UNCHANGED <<panicked, last>>
  /\ UNCHANGED nicrest

NextRx ==
  \/ DevReceive
  \/ E1000RecvEnter
  \/ E1000RecvTurn

SpecRx == Init /\ [][NextRx]_vars

\* ------------------------------------------------------------ user/pingpong.c, parent and child
\* what a step of pingpong leaves alone
pprest ==
  <<mem, page_refcounts, kmem, pagetable, sz, panicked, nextpid, ncalls, vmas, vma_list,
    fref, wlog, last, held, kcore, klock, sawempty, bcache, bio, nic>>

\* the shell starts pingpong as process pid
PingMain(pid) ==
  /\ pp.parent = "start"
  /\ pp' = [pp EXCEPT !.parent = "pipe", !.ppid = pid]
  /\ UNCHANGED pprest

\* pipe(pipe_fds): with an error the message and exit(1)
PingPipe(ok) ==
  /\ pp.parent = "pipe"
  /\ pp' = IF ok THEN [pp EXCEPT !.parent = "fork"]
           ELSE [pp_piece(pp, pp.ppid, "error: could not open pipe", 1)
                   EXCEPT !.parent = "exited", !.pstatus = 1]
  /\ UNCHANGED pprest

\* fork(): the child starts at its read; with an error the message and exit(1)
PingFork(ok, pid) ==
  /\ pp.parent = "fork"
  /\ pid > pp.ppid
  /\ pp' = IF ok THEN [pp EXCEPT !.parent = "print_ping", !.child = "read", !.cpid = pid]
           ELSE [pp_piece(pp, pp.ppid, "error: could not fork", 1)
                   EXCEPT !.parent = "exited", !.pstatus = 1]
  /\ UNCHANGED pprest

\* the text of the printf at a place of the parent or the child, and the place
\* after it
PingLine(pc) ==
  CASE pc = "print_ping" -> "sending ping"
    [] pc = "print_pong" -> "received pong"
    [] pc = "print_got_ping" -> "received ping"
    [] pc = "print_send_pong" -> "sending pong"

PingAfter(pc) ==
  CASE pc = "print_ping" -> "write"
    [] pc = "print_pong" -> "wait"
    [] pc = "print_got_ping" -> "print_send_pong"
    [] pc = "print_send_pong" -> "write"

\* the parent's printf calls, a piece at a time
ParentPrint ==
  /\ pp.parent \in {"print_ping", "print_pong"}
  /\ pp' = [pp_piece(pp, pp.ppid, PingLine(pp.parent), pp.ppiece + 1) EXCEPT
              !.ppiece = IF pp.ppiece + 1 = PrintPieces THEN 0 ELSE pp.ppiece + 1,
              !.parent = IF pp.ppiece + 1 = PrintPieces THEN PingAfter(pp.parent) ELSE @]
  /\ UNCHANGED pprest

\* (1) the parent writes one byte to the pipe
ParentWrite ==
  /\ pp.parent = "write"
  /\ pp' = [pp EXCEPT !.pipe = @ + 1, !.parent = "read"]
  /\ UNCHANGED pprest

\* (4) the parent reads one byte from the pipe; read waits while the pipe is
\* empty and its write end is open
ParentRead ==
  /\ pp.parent = "read" /\ pp.pipe > 0
  /\ pp' = [pp EXCEPT !.pipe = @ - 1, !.parent = "print_pong"]
  /\ UNCHANGED pprest

\* wait(0) returns when the child has exited, then exit(0)
ParentWait ==
  /\ pp.parent = "wait" /\ pp.child = "zombie"
  /\ pp' = [pp EXCEPT !.child = "reaped", !.parent = "exited", !.pstatus = 0]
  /\ UNCHANGED pprest

\* (2) the child reads one byte from the pipe
ChildRead ==
  /\ pp.child = "read" /\ pp.pipe > 0
  /\ pp' = [pp EXCEPT !.pipe = @ - 1, !.child = "print_got_ping"]
  /\ UNCHANGED pprest

\* the child's printf calls, a piece at a time
ChildPrint ==
  /\ pp.child \in {"print_got_ping", "print_send_pong"}
  /\ pp' = [pp_piece(pp, pp.cpid, PingLine(pp.child), pp.cpiece + 1) EXCEPT
              !.cpiece = IF pp.cpiece + 1 = PrintPieces THEN 0 ELSE pp.cpiece + 1,
              !.child = IF pp.cpiece + 1 = PrintPieces THEN PingAfter(pp.child) ELSE @]
  /\ UNCHANGED pprest

\* (3) the child writes one byte to the pipe, then exit(0)
ChildWrite ==
  /\ pp.child = "write"
  /\ pp' = [pp EXCEPT !.pipe = @ + 1, !.child = "exit"]
  /\ UNCHANGED pprest

ChildExit ==
  /\ pp.child = "exit"
  /\ pp' = [pp EXCEPT !.child = "zombie", !.cstatus = 0]
  /\ UNCHANGED pprest

NextPingPong ==
  \/ \E pid \in FirstUserPid .. FirstUserPid + PidChoices - 1 : PingMain(pid)
  \/ \E ok \in BOOLEAN : PingPipe(ok)
  \/ \E ok \in BOOLEAN, pid \in FirstUserPid + 1 .. FirstUserPid + PidChoices : PingFork(ok, pid)
  \/ ParentPrint
  \/ ParentWrite
  \/ ParentRead
  \/ ParentWait
  \/ ChildRead
  \/ ChildPrint
  \/ ChildWrite
  \/ ChildExit

SpecPingPong == Init /\ [][NextPingPong]_vars

\* the scheduler lets every process that can run take its next step
PingPongFairness ==
  /\ WF_vars(ParentPrint) /\ WF_vars(ParentWrite) /\ WF_vars(ParentRead)
  /\ WF_vars(ParentWait) /\ WF_vars(ChildRead) /\ WF_vars(ChildPrint)
  /\ WF_vars(ChildWrite) /\ WF_vars(ChildExit)

SpecPingPongFair == SpecPingPong /\ PingPongFairness

\* ------------------------------------------------------------ copy-on-write, two cores
\* Process p takes its store page faults on core mycpu(p); the other process
\* runs on its own core at the same time.  kcore[c].pa is old_pa, kcore[c].r is
\* new_pa, kcore[c].i the word memmove copies next; held has <<p, va, page>> from
\* the decrement of kcopyonwrite to the return of uvmwalkcow, page being the
\* contents of the frame at the decrement.
\* the pages of the parent at fork, and the frames taken at boot
CowPages == 1
CowBootPages == 2

\* what a step of the fault handler leaves alone
cowrest ==
  <<kmem, sz, nextpid, ncalls, vmas, vma_list, fref, wlog, klock, sawempty,
    bcache, bio, nic, pp>>

\* the fault of process p that is in progress
CowFault(p) == CHOOSE h \in held : h[1] = p

\* the state after boot, two uvmcreate, uvmalloc of the parent and uvmcopy
InitCow ==
  LET k0 == [mem |-> [f \in Frames |-> ZeroPage], ref |-> [f \in Frames |-> 0],
             kmem |-> [c \in CPUs |-> 0], pagetable |-> [p \in Procs |-> 0],
             sz |-> [p \in Procs |-> 0], pan |-> "",
             vmas |-> [i \in Slots |-> ZeroVma], vma_list |-> [p \in Procs |-> 0],
             fref |-> [f \in Files |-> 1],
             wlog |-> <<>>]
      kb == boot_kalloc(kinit_loop(k0, PGROUNDUP(end)), CowBootPages)
      c1 == uvmcreate(kb, mycpu(1))
      k1 == [c1.k EXCEPT !.pagetable[1] = c1.pa]
      c2 == uvmcreate(k1, mycpu(2))
      k2 == [c2.k EXCEPT !.pagetable[2] = c2.pa]
      a == uvmalloc(k2, mycpu(1), k2.pagetable[1], 0, CowPages * PGSIZE, PTE_W)
      k3 == [a.k EXCEPT !.sz[1] = a.r]
      f == uvmcopy(k3, mycpu(1), k3.pagetable[1], k3.pagetable[2], k3.sz[1])
      k == [f.k EXCEPT !.sz[2] = k3.sz[1]]
  IN /\ mem = k.mem
     /\ page_refcounts = k.ref
     /\ kmem = k.kmem
     /\ pagetable = k.pagetable
     /\ sz = k.sz
     /\ panicked = k.pan
     /\ nextpid = 3
     /\ ncalls = 0
     /\ vmas = k.vmas
     /\ vma_list = k.vma_list
     /\ fref = k.fref
     /\ wlog = <<>>
     /\ last = Call("uvmcopy", 1, 2, k3.sz[1], f.r)
     /\ held = {}
     /\ kcore = [c \in CPUs |-> IdleCore]
     /\ klock = [c \in CPUs |-> -1]
     /\ sawempty = [c \in CPUs |-> FALSE]
     /\ bcache = binit
     /\ bio = [p \in BProcs |-> IdleProc]
     /\ nic = e1000_init
     /\ pp = PingPongStart

\* uvmwalkcow up to the call of kcopyonwrite: the leaf has the copy-on-write bit
CowEnter(p, va) ==
  /\ Running /\ kcore[mycpu(p)].pc = "idle" /\ pagetable[p] # 0 /\ va < sz[p]
  /\ HasBit(LeafPte(p, va), PTE_COW)
  /\ kcore' = [kcore EXCEPT ![mycpu(p)] =
                 [pc |-> "cow_dec", i |-> 0, pa |-> PTE2PA(LeafPte(p, va)), r |-> 0]]
  /\ held' = held \cup {<<p, va, mem[FN(PTE2PA(LeafPte(p, va)))]>>}
  /\ UNCHANGED <<mem, page_refcounts, pagetable, panicked, last, cowrest>>

\* kcopyonwrite: the check of pa and __sync_sub_and_fetch on the refcount
CowDec(p) ==
  /\ Running /\ kcore[mycpu(p)].pc = "cow_dec"
  /\ IF ~Managed(kcore[mycpu(p)].pa)
       THEN /\ panicked' = "kcopyonwrite"
            /\ UNCHANGED <<page_refcounts, kcore, held>>
     ELSE /\ page_refcounts' = [page_refcounts EXCEPT ![FN(kcore[mycpu(p)].pa)] =
                                  (@ + UintMod - 1) % UintMod]
          /\ kcore' = [kcore EXCEPT ![mycpu(p)].pc =
                         IF page_refcounts'[FN(kcore[mycpu(p)].pa)] = 0
                           THEN "cow_own" ELSE "cow_alloc"]
          /\ held' = (held \ {CowFault(p)})
                       \cup {<<p, CowFault(p)[2], mem[FN(kcore[mycpu(p)].pa)]>>}
          /\ UNCHANGED panicked
  /\ UNCHANGED <<mem, pagetable, last, cowrest>>

\* kcopyonwrite, no reference left: the plain store of 1 to the refcount, and
\* the page itself is returned
CowOwn(p) ==
  /\ Running /\ kcore[mycpu(p)].pc = "cow_own"
  /\ page_refcounts' = [page_refcounts EXCEPT ![FN(kcore[mycpu(p)].pa)] = 1]
  /\ kcore' = [kcore EXCEPT ![mycpu(p)].pc = "cow_remap",
                            ![mycpu(p)].r = kcore[mycpu(p)].pa]
  /\ UNCHANGED <<mem, pagetable, panicked, last, held, cowrest>>

\* kcopyonwrite: kalloc; with 0 kcopyonwrite returns 0 and uvmwalkcow returns 0
CowAlloc(p) ==
  /\ Running /\ kcore[mycpu(p)].pc = "cow_alloc"
  /\ \E a \in {kalloc(Cur, mycpu(p))} :
        /\ mem' = a.k.mem /\ page_refcounts' = a.k.ref /\ kmem' = a.k.kmem
        /\ kcore' = [kcore EXCEPT ![mycpu(p)] =
                       IF a.pa = 0 THEN IdleCore ELSE [@ EXCEPT !.pc = "cow_copy", !.r = a.pa]]
        /\ held' = IF a.pa = 0 THEN held \ {CowFault(p)} ELSE held
        /\ last' = IF a.pa = 0 THEN Call("uvmwalkcow", p, CowFault(p)[2], 0, 0) ELSE last
  /\ UNCHANGED <<pagetable, panicked, sz, nextpid, ncalls, vmas, vma_list, fref, wlog,
                 klock, sawempty, bcache, bio, nic, pp>>

\* kcopyonwrite: memmove(new_pa, pa, PGSIZE), a word at a time
CowCopy(p) ==
  /\ Running /\ kcore[mycpu(p)].pc = "cow_copy"
  /\ mem' = [mem EXCEPT ![FN(kcore[mycpu(p)].r)][kcore[mycpu(p)].i] =
               mem[FN(kcore[mycpu(p)].pa)][kcore[mycpu(p)].i]]
  /\ kcore' = [kcore EXCEPT ![mycpu(p)] =
                 IF kcore[mycpu(p)].i + 1 = NPTE THEN [@ EXCEPT !.pc = "cow_remap", !.i = 0]
                 ELSE [@ EXCEPT !.i = @ + 1]]
  /\ UNCHANGED <<page_refcounts, pagetable, panicked, last, held, cowrest>>

\* uvmwalkcow after kcopyonwrite: the leaf gets new_pa, writable and no longer
\* copy-on-write, and is returned
CowRemap(p) ==
  /\ Running /\ kcore[mycpu(p)].pc = "cow_remap"
  /\ \E w \in {walk(Cur, mycpu(p), pagetable[p], CowFault(p)[2], 0)} :
        mem' = uvmwalkcow_remap([k |-> Cur, pa |-> kcore[mycpu(p)].r], w.pte,
                                PTE_FLAGS(Deref(Cur, w.pte))).k.mem
  /\ kcore' = [kcore EXCEPT ![mycpu(p)] = IdleCore]
  /\ held' = held \ {CowFault(p)}
  /\ last' = Call("uvmwalkcow", p, CowFault(p)[2], 0, 1)
  /\ UNCHANGED <<page_refcounts, pagetable, panicked, cowrest>>

\* a store instruction of process p in user mode
CowStore(p, va) == kcore[mycpu(p)].pc = "idle" /\ va < sz[p] /\ Store(p, va)

\* process p exits
CowExit(p) == kcore[mycpu(p)].pc = "idle" /\ UvmFree(p)

NextCow ==
  \/ \E p \in Procs, va \in UserPages : CowEnter(p, va)
  \/ \E p \in Procs : CowDec(p)
  \/ \E p \in Procs : CowOwn(p)
  \/ \E p \in Procs : CowAlloc(p)
  \/ \E p \in Procs : CowCopy(p)
  \/ \E p \in Procs : CowRemap(p)
  \/ \E p \in Procs, va \in UserPages : CowStore(p, va)
  \/ \E p \in Procs : CowExit(p)

SpecCow == InitCow /\ [][NextCow]_vars

\* ------------------------------------------------------------ claims
\* C1: after a successful uvmcopy(parent, child, sz) every page below sz reads
\* through both page tables what the parent read before, and from then on a
\* write made through uvmwalkcow/copyout (or the store that follows the fault) in
\* one address space never changes what any other address space reads, also when
\* a copy-on-write resolution failed for lack of memory and is retried.
CowIsolation ==
  [][\A p \in Procs :
       /\ \A np \in Procs :
            (last'.op = "uvmcopy" /\ last'.p = p /\ last'.a = np /\ last'.r = 0) =>
              \A va \in UserPages :
                va < sz[p] =>
                  /\ ReadPage(p, va)' = ReadPage(p, va)
                  /\ ReadPage(np, va)' = ReadPage(p, va)
       /\ (last'.op \in {"copyout", "store", "uvmwalkcow"} /\ last'.p = p) =>
            \A q \in Procs \ {p} :
              \A va \in UserPages : va < sz[q] => ReadPage(q, va)' = ReadPage(q, va)
    ]_vars

\* a copy-on-write resolution has failed for lack of memory and the kernel runs on
CowFailed ==
  /\ panicked = ""
  /\ last.op \in {"copyout", "uvmwalkcow"}
  /\ last.r = IF last.op = "copyout" THEN -1 ELSE 0
  /\ HasBit(LeafPte(last.p, last.a), PTE_COW)

\* C2: a frame mapped by k >= 1 leaf entries has refcount k, and a frame with
\* refcount 0 is mapped by no leaf entry.
RefcountIsLeafCount ==
  panicked = "" =>
    \A f \in Frames :
      /\ LeafRefs(f) >= 1 => page_refcounts[f] = LeafRefs(f)
      /\ page_refcounts[f] = 0 => LeafRefs(f) = 0

\* C3: every managed frame is either once on exactly one free list (with
\* refcount 0) or on no free list with a nonzero refcount.
FrameConservation ==
  panicked = "" =>
    \A f \in Frames :
      \/ OnFreeLists(f) = 1 /\ page_refcounts[f] = 0
      \/ OnFreeLists(f) = 0 /\ page_refcounts[f] # 0

\* C4: the unsigned refcount of a frame is never decremented below 0, that is
\* it never wraps around to the top of the uint range.
RefcountNeverWraps ==
  \A f \in Frames : page_refcounts[f] < UintMod \div 2

\* C5: the vma_list of every process is sorted by ascending vm_start and no two
\* regions of one list have an address in common.
VmaListSortedDisjoint ==
  panicked = "" =>
    \A p \in Procs :
      \A i \in 1 .. Len(VmaSeq(p)) :
        \A j \in 1 .. Len(VmaSeq(p)) :
          i < j =>
            /\ VmaInfos(p)[i].vm_start <= VmaInfos(p)[j].vm_start
            /\ ~Overlap(VmaInfos(p)[i].vm_start, VmaInfos(p)[i].vm_end,
                        VmaInfos(p)[j].vm_start, VmaInfos(p)[j].vm_end)

\* mmap_copy has given a process a list of two or more regions
ForkedTwoRegions ==
  /\ panicked = "" /\ last.op = "mmap_copy"
  /\ \E p \in Procs : p # last.p /\ Len(VmaSeq(p)) >= 2

\* C6: when munmap or munmap_all releases pages of regions, every released page P
\* that is dirty and lies in a MAP_SHARED region is written to the file at offset
\* vm_file_offset + (P - vm_start) of that region, and no other page is written.
SharedDirtyPagesWrittenAtTheirOffset ==
  [][\A p \in Procs :
       (last'.op \in {"munmap", "munmap_all"} /\ last'.p = p /\ panicked' = "") =>
         \A va \in UserPages :
           (LeafPte(p, va) # 0 /\ LeafPte(p, va)' = 0) =>
             IF HasBit(LeafPte(p, va), PTE_D)
                /\ \E j \in 1 .. Len(VmaSeq(p)) :
                     /\ va >= VmaInfos(p)[j].vm_start /\ va < VmaInfos(p)[j].vm_end
                     /\ HasBit(VmaInfos(p)[j].vm_flags, MAP_SHARED)
               THEN \E w \in 1 .. Len(wlog') :
                      /\ wlog'[w].va = va
                      /\ \E j \in 1 .. Len(VmaSeq(p)) :
                           /\ va >= VmaInfos(p)[j].vm_start /\ va < VmaInfos(p)[j].vm_end
                           /\ wlog'[w].off
                                = VmaInfos(p)[j].vm_file_offset
                                    + (va - VmaInfos(p)[j].vm_start)
             ELSE \A w \in 1 .. Len(wlog') : wlog'[w].va # va
    ]_vars

\* a release has written a dirty page of a shared region to the file
DirtyPageWritten == last.op \in {"munmap", "munmap_all"} /\ Len(wlog) > 0

\* C7: munmap of the page-aligned range [B, C) strictly inside the region [A, Z)
\* with file offset F, the only region of the list that holds B, replaces that
\* region on the list by [A, B) with offset F followed by [C, Z) with offset
\* F + (C - A), both with the protection, flags and file of [A, Z), leaves the
\* other regions of the list as they are, and leaves no leaf entry in [B, C).
MunmapInsideSplitsInTwo ==
  [][\A p \in Procs :
       (last'.op = "munmap" /\ last'.p = p /\ panicked' = "") =>
         \A addr \in MmapPages, len \in UnmapLens :
           LET B == PGROUNDDOWN(addr)
               C == PGROUNDUP(B + len)
               old == VmaInfos(p)
               hit == {j \in 1 .. Len(old) : old[j].vm_start <= B /\ B < old[j].vm_end}
           IN (/\ B < C
               /\ Cardinality(hit) = 1
               /\ \A j \in hit : old[j].vm_start < B /\ C < old[j].vm_end
               /\ Munmap(p, addr, len)) =>
                \A j \in hit :
                  /\ VmaInfos(p)'
                       = SubSeq(old, 1, j - 1)
                           \o <<[old[j] EXCEPT !.vm_end = B],
                                [old[j] EXCEPT
                                   !.vm_start = C,
                                   !.vm_file_offset = old[j].vm_file_offset
                                                        + (C - old[j].vm_start)]>>
                           \o SubSeq(old, j + 1, Len(old))
                  /\ \A va \in UserPages : (B <= va /\ va < C) => LeafPte(p, va)' = 0
    ]_vars

\* munmap has cut a hole out of a region: two regions of one file follow each
\* other on a list, with a gap between them that a page was unmapped from
MunmapCutHole ==
  /\ panicked = "" /\ last.op = "munmap"
  /\ \E p \in Procs :
       \E j \in 1 .. (Len(VmaSeq(p)) - 1) :
         /\ last.p = p
         /\ VmaInfos(p)[j].vm_start < VmaInfos(p)[j].vm_end
         /\ VmaInfos(p)[j].vm_end < VmaInfos(p)[j + 1].vm_start
         /\ VmaInfos(p)[j + 1].vm_start < VmaInfos(p)[j + 1].vm_end
         /\ VmaInfos(p)[j + 1].vm_file_offset
              = VmaInfos(p)[j].vm_file_offset
                  + (VmaInfos(p)[j + 1].vm_start - VmaInfos(p)[j].vm_start)
         /\ VmaInfos(p)[j + 1].vm_file_offset # VmaInfos(p)[j].vm_file_offset
         /\ \E f \in Frames : mem[f] = JunkPage(JUNK_FREE) \/ mem[f][1] = JUNK_FREE

\* C8: in a process with an empty list, mmap of any length that succeeds,
\* returning a, followed at once by munmap(a, len) with the same length leaves the
\* list of the process empty and the slot of the region unused.
MmapThenMunmapLeavesEmpty ==
  [][\A p \in Procs :
       (/\ last.op = "mmap" /\ last.p = p /\ last.r # -1
        /\ Len(VmaSeq(p)) = 1
        /\ last'.op = "munmap" /\ last'.p = p /\ panicked' = "") =>
         LET v == vma_list[p]
         IN Munmap(p, vmas[v].vm_start, vmas[v].vm_end - vmas[v].vm_start) =>
              vma_list'[p] = 0 /\ vmas'[v].used = 0
    ]_vars

\* C9: munmap(addr, len) whose page-rounded range has no address in common with
\* any region of the process changes neither the regions, the lists, the slots,
\* the page tables nor the refcounts.
MunmapOutsideChangesNothing ==
  [][\A p \in Procs :
       (last'.op = "munmap" /\ last'.p = p) =>
         \A addr \in MmapPages, len \in UnmapLens :
           LET B == PGROUNDDOWN(addr)
               C == PGROUNDUP(B + len)
           IN (/\ \A j \in 1 .. Len(VmaSeq(p)) :
                    ~Overlap(B, C, VmaInfos(p)[j].vm_start, VmaInfos(p)[j].vm_end)
               /\ Munmap(p, addr, len)) =>
                /\ panicked' = ""
                /\ vmas' = vmas /\ vma_list' = vma_list /\ fref' = fref
                /\ mem' = mem /\ page_refcounts' = page_refcounts /\ kmem' = kmem
    ]_vars

\* C10: after munmap(addr, len) has returned, no region of the process has an
\* address in common with the page-rounded range.
MunmapLeavesRangeUncovered ==
  [][\A p \in Procs :
       (last'.op = "munmap" /\ last'.p = p /\ panicked' = "") =>
         \A addr \in MmapPages, len \in UnmapLens :
           LET B == PGROUNDDOWN(addr)
               C == PGROUNDUP(B + len)
           IN Munmap(p, addr, len) =>
                \A j \in 1 .. Len(VmaSeq(p)') :
                  ~Overlap(B, C, VmaInfos(p)'[j].vm_start, VmaInfos(p)'[j].vm_end)
    ]_vars

\* no core has a page on its free list
NoFreeFrame == \A c \in CPUs : kmem[c] = 0

\* C12: when no physical frame is available, every operation that needs one
\* (walk with alloc set and mappages inside their callers, uvmcreate, uvmalloc,
\* uvmcopy, uvmwalkcow and the mmap page-fault handler) returns a failure result
\* and the kernel does not panic.
ExhaustionIsReportedNotFatal ==
  [][(NoFreeFrame /\ panicked = "") =>
       /\ last'.op \in {"uvmcreate", "uvmalloc", "uvmcopy", "uvmwalkcow", "copyout",
                        "mmap_page_fault_handler"}
            => panicked' = ""
       /\ last'.op \in {"uvmcreate", "uvmalloc"} => last'.r = 0
       /\ last'.op = "uvmcopy" => last'.r = -1
       /\ last'.op = "mmap_page_fault_handler" => last'.r # 1
    ]_vars

\* a page fault in a region has found no free frame
FaultWithoutMemory ==
  /\ last.op = "mmap_page_fault_handler"
  /\ panicked = "mmap_page_fault_handler: no free mem"
  /\ NoFreeFrame

\* the requests mmap has to reject
MmapBadRequest(prot, flags, fd, offset) ==
  \/ offset % PGSIZE # 0
  \/ HasBit(prot, PROT_WRITE) /\ HasBit(flags, MAP_SHARED) /\ FileWritable(fd) = 0
  \/ HasBit(prot, PROT_READ) /\ FileReadable(fd) = 0

\* C13: mmap with an offset that is no multiple of the page size, or with
\* PROT_WRITE and MAP_SHARED on a file that is not writable, or with PROT_READ on
\* a file that is not readable, returns the failure value and leaves the list of
\* the process, the slots of vmas[] and the reference count of the file as they
\* were.
MmapRejectsBadRequests ==
  [][\A p \in Procs, len \in ArgLens, prot \in ArgProts, flags \in ArgFlags, fd \in Files,
        off \in ArgOffsets :
       (/\ last'.op = "mmap" /\ last'.p = p
        /\ MmapBadRequest(prot, flags, fd, off)
        /\ Mmap(p, len, prot, flags, fd, off)) =>
         /\ last'.r = -1 /\ panicked' = ""
         /\ vma_list' = vma_list /\ vmas' = vmas /\ fref' = fref
    ]_vars

\* mmap has rejected a request of a process that has a region already
MmapRejected ==
  /\ panicked = "" /\ last.op = "mmap" /\ last.r = -1
  /\ vma_list[last.p] # 0
  /\ \E f \in Files : fref[f] > 1

\* the table page of the given level on the path of va in p's tree, 0 when the
\* entry that leads to it is not valid
RECURSIVE PathTable(_, _, _)
PathTable(p, va, level) ==
  IF level = 2 THEN pagetable[p]
  ELSE IF PathTable(p, va, level + 1) = 0 \/ ~Managed(PathTable(p, va, level + 1)) THEN 0
  ELSE IF HasBit(mem[FN(PathTable(p, va, level + 1))][PX(level + 1, va)], PTE_V)
    THEN PTE2PA(mem[FN(PathTable(p, va, level + 1))][PX(level + 1, va)])
  ELSE 0

\* the intermediate levels the path of va lacks
MissingLevels(p, va) == Cardinality({l \in {0, 1} : PathTable(p, va, l) = 0})

\* C14: walk with alloc = 0 allocates no frame and changes no page-table entry;
\* walk with alloc = 1 allocates at most as many frames as the path of the
\* address lacks intermediate levels, every one of them a table page of that path,
\* zero-filled but for the link to the next table of the path, and changes nothing
\* else than the entries that link them; it follows no pointer out of memory.
WalkAllocatesOnlyMissingLevels ==
  [][\A p \in Procs, va \in UserPages :
       (last'.op = "walk" /\ last'.p = p /\ last'.a = va) =>
         LET new == {f \in Frames : page_refcounts[f] = 0 /\ page_refcounts'[f] # 0}
         IN /\ panicked' = ""
            /\ last'.b = 0 =>
                 /\ mem' = mem /\ kmem' = kmem /\ page_refcounts' = page_refcounts
                 /\ last'.r = (IF MissingLevels(p, va) = 0 THEN 1 ELSE 0)
            /\ last'.b = 1 =>
                 /\ Cardinality(new) <= MissingLevels(p, va)
                 /\ \A f \in new :
                      /\ page_refcounts'[f] = 1
                      /\ \E l \in {0, 1} :
                           /\ PathTable(p, va, l) = 0
                           /\ PathTable(p, va, l)' = f * PGSIZE
                           /\ \A i \in Idx :
                                mem'[f][i] =
                                  IF l = 1 /\ i = PX(1, va) /\ PathTable(p, va, 0)' # 0
                                    THEN PA2PTE(PathTable(p, va, 0)') + PTE_V
                                  ELSE 0
                 /\ \A f \in Frames \ new :
                      \A i \in Idx :
                        mem'[f][i] # mem[f][i] =>
                          \E l \in {1, 2} :
                            /\ f * PGSIZE = PathTable(p, va, l) /\ i = PX(l, va)
                            /\ PathTable(p, va, l - 1) = 0
                            /\ FN(PTE2PA(mem'[f][i])) \in new
                 /\ \A f \in Frames \ new : page_refcounts'[f] = page_refcounts[f]
                 /\ last'.r = (IF MissingLevels(p, va)' = 0 THEN 1 ELSE 0)
    ]_vars

\* walk with alloc = 1 has made both missing tables of a path
WalkMadeTwoTables ==
  /\ panicked = "" /\ last.op = "walk" /\ last.b = 1 /\ last.r = 1
  /\ \E c \in CPUs : Len(FreeList(c)) = NFRAMES - BootPages - 3
  /\ \A q \in Procs : sz[q] = 0
  /\ Cardinality({q \in Procs : pagetable[q] # 0}) = 1

\* the addresses kfree is called with
KfreeAddrs == {f * PGSIZE : f \in Frames} \cup BadAddrs

\* C17: kfree(pa) with pa not page-aligned or outside [end, PHYSTOP) panics and
\* changes no refcount and no free list; otherwise it takes one from the refcount
\* of pa and pushes the frame on the free list of the calling core exactly when
\* the new count is 0, leaving every free list as it is when the new count is
\* not 0.
KfreeContract ==
  panicked = "" =>
    \A c \in CPUs, pa \in KfreeAddrs :
      LET k == kfree(Cur, c, pa)
      IN IF pa % PGSIZE # 0 \/ pa < end \/ pa >= PHYSTOP
           THEN /\ k.pan = "kfree"
                /\ k.ref = page_refcounts /\ k.kmem = kmem /\ k.mem = mem
         ELSE /\ k.pan = ""
              /\ k.ref = [page_refcounts EXCEPT ![FN(pa)] = (@ - 1) % UintMod]
              /\ IF k.ref[FN(pa)] = 0
                   THEN /\ k.kmem = [kmem EXCEPT ![c] = pa]
                        /\ k.mem[FN(pa)][0] = kmem[c]
                        /\ \A f \in Frames \ {FN(pa)} : k.mem[f] = mem[f]
                 ELSE k.kmem = kmem /\ k.mem = mem

\* kfree has pushed a page on the list of a core that is not the core of kinit
KfreePushedPage ==
  /\ panicked = "" /\ last.op = "kfree" /\ last.p # 0
  /\ kmem[last.p] = last.a /\ page_refcounts[FN(last.a)] = 0

\* C18: a successful uvmwalkcow on a leaf with the copy-on-write bit leaves the
\* leaf with copy-on-write clear, writable set and its other flags as they were,
\* pointing at a frame with refcount 1: the same frame when the caller's leaf was
\* the only one that mapped it, otherwise a frame that was free and now holds a
\* copy of the contents, the refcount of the original frame being one less; a
\* leaf without the copy-on-write bit is returned as it is and nothing is
\* allocated.
UvmWalkCowResolves ==
  [][\A p \in Procs, va \in UserPages :
       (/\ last'.op = "uvmwalkcow" /\ last'.p = p /\ last'.a = va /\ last'.r = 1
        /\ panicked' = "") =>
         LET old == LeafPte(p, va)
             new == LeafPte(p, va)'
             f == FN(PTE2PA(old))
             g == FN(PTE2PA(new))
         IN IF HasBit(old, PTE_COW)
              THEN /\ PTE_FLAGS(new) = SetBit(ClearBit(PTE_FLAGS(old), PTE_COW), PTE_W)
                   /\ page_refcounts'[g] = 1
                   /\ IF LeafRefs(f) = 1 THEN g = f
                      ELSE /\ g # f
                           /\ page_refcounts[g] = 0 /\ OnFreeLists(g) = 1
                           /\ mem'[g] = mem[f]
                           /\ page_refcounts'[f] = page_refcounts[f] - 1
            ELSE mem' = mem /\ page_refcounts' = page_refcounts /\ kmem' = kmem
    ]_vars

\* uvmwalkcow has given the caller a frame that another leaf entry maps as well
CowFrameStillShared ==
  /\ panicked = "" /\ last.op = "uvmwalkcow" /\ last.r = 1
  /\ HasBit(LeafPte(last.p, last.a), PTE_W)
  /\ LeafRefs(FN(PTE2PA(LeafPte(last.p, last.a)))) = 2

KallocFailsOnlyWhenAllEmpty ==
  [][\A c \in CPUs :
       (kcore[c].pc = "locked" /\ kcore'[c].pc = "idle") =>
         IF kcore'[c].r = 0 THEN sawempty[c]
         ELSE page_refcounts'[FN(kcore'[c].r)] = 1
    ]_vars

\* a kalloc call has returned 0 although a page was free at every instant of
\* the call, and a page is free now
KallocFailedBesideFreePage ==
  /\ last.op = "kalloc" /\ last.r = 0 /\ last.b = 0
  /\ ~AllEmpty(kmem)


\* the processes that have returned from bget with buf b and not from brelse
Holders(b) == {p \in BProcs : bio[p].pc \in {"hold", "dec", "unlock"} /\ bio[p].b = b}

\* C15: at any time at most one buffer with refcnt > 0 is the buffer of a given
\* (dev, blockno), also when processes call bread for one uncached block at once.
OneBufferPerBlock ==
  \A b1 \in Bufs, b2 \in Bufs :
    (/\ b1 # b2
     /\ bcache.buf[b1].refcnt > 0 /\ bcache.buf[b2].refcnt > 0
     /\ bcache.buf[b1].dev = bcache.buf[b2].dev)
      => bcache.buf[b1].blockno # bcache.buf[b2].blockno

\* two processes have each returned from bread with its own buffer of one block
TwoBuffersOfOneBlock ==
  \E p \in BProcs, q \in BProcs :
    /\ p # q /\ bio[p].pc = "hold" /\ bio[q].pc = "hold"
    /\ bio[p].blockno = bio[q].blockno /\ bio[p].b # bio[q].b
    /\ bcache.buf[bio[p].b].blockno = bio[p].blockno
    /\ bcache.buf[bio[q].b].blockno = bio[q].blockno
    /\ bcache.buf[bio[p].b].refcnt = 1 /\ bcache.buf[bio[q].b].refcnt = 1

\* C16: between its return from bget with a buffer and its brelse a process is
\* the only one that has returned from bget with that buffer.
OneHolderPerBuffer ==
  \A b \in Bufs : Cardinality(Holders(b)) <= 1

\* a process holds a buffer while another, having found it in the cache too,
\* waits for its sleep-lock
HolderAndWaiter ==
  \E p \in BProcs, q \in BProcs :
    /\ p # q /\ bio[p].pc = "hold" /\ bio[q].pc = "sleep" /\ bio[q].b = bio[p].b
    /\ bcache.buf[bio[p].b].refcnt = 2


\* C21: a successful mmap returns a page-aligned start, and the new region lies
\* below the start of every region the process already had and below USYSCALL,
\* also in a process whose list was built by mmap_copy.
MmapBelowEveryRegion ==
  [][\A p \in Procs :
       (last'.op = "mmap" /\ last'.p = p /\ last'.r # -1 /\ panicked' = "") =>
         /\ last'.r % PGSIZE = 0
         /\ vmas'[vma_list'[p]].vm_start = last'.r
         /\ vmas'[vma_list'[p]].vm_end <= USYSCALL
         /\ \A i \in 1 .. Len(VmaSeq(p)) :
              vmas'[vma_list'[p]].vm_end <= VmaInfos(p)[i].vm_start
    ]_vars

\* mmap has succeeded in a process whose list mmap_copy built from two regions,
\* and the new region shares addresses with the lower of the two
MmapOverlapsInForkedChild ==
  /\ panicked = "" /\ last.op = "mmap" /\ last.r # -1
  /\ Len(VmaSeq(last.p)) >= 3
  /\ VmaInfos(last.p)[2].vm_start > VmaInfos(last.p)[3].vm_start
  /\ Overlap(VmaInfos(last.p)[1].vm_start, VmaInfos(last.p)[1].vm_end,
             VmaInfos(last.p)[3].vm_start, VmaInfos(last.p)[3].vm_end)


\* the region of process p that the fault handler finds for the page at va
FaultVma(p, va) == vmas[vma_find(Cur, vma_list[p], va, 0, NVMA + 1).vma]

\* C22: the leaf the mmap page-fault handler installs is user-accessible and is
\* readable, writable and executable exactly when the protection of the region
\* contains PROT_READ, PROT_WRITE and PROT_EXEC.
FaultLeafFollowsProt ==
  [][\A p \in Procs, va \in MmapPages :
       (/\ last'.op = "mmap_page_fault_handler" /\ last'.p = p /\ last'.r = 1
        /\ panicked' = ""
        /\ LeafPte(p, va) = 0 /\ LeafPte(p, va)' # 0) =>
         /\ HasBit(LeafPte(p, va)', PTE_U)
         /\ HasBit(LeafPte(p, va)', PTE_R) <=> HasBit(FaultVma(p, va).vm_prot, PROT_READ)
         /\ HasBit(LeafPte(p, va)', PTE_W) <=> HasBit(FaultVma(p, va).vm_prot, PROT_WRITE)
         /\ HasBit(LeafPte(p, va)', PTE_X) <=> HasBit(FaultVma(p, va).vm_prot, PROT_EXEC)
    ]_vars

\* a fault in a region mapped with PROT_READ only has installed a writable leaf
WritableLeafInReadOnlyRegion ==
  /\ panicked = "" /\ last.op = "mmap_page_fault_handler" /\ last.r = 1
  /\ \E va \in MmapPages :
        /\ LeafPte(last.p, va) # 0 /\ HasBit(LeafPte(last.p, va), PTE_W)
        /\ vma_find(Cur, vma_list[last.p], va, 0, NVMA + 1).vma # 0
        /\ FaultVma(last.p, va).vm_prot = PROT_READ


\* the page a fault at va has to bring in for region v: the file from offset
\* vm_file_offset + (va - vm_start) on, up to the end of the page or of the
\* region, and zero after that
FaultPage(v, va) ==
  [i \in Idx |->
     IF /\ i * WORDSZ < (IF v.vm_end - va < PGSIZE THEN v.vm_end - va ELSE PGSIZE)
        /\ ((v.vm_file_offset + (va - v.vm_start)) \div WORDSZ) + i < FILEWORDS
       THEN FileWord(v.vm_file, ((v.vm_file_offset + (va - v.vm_start)) \div WORDSZ) + i)
     ELSE 0]

\* C23: a fault at page va of a region reads min(PGSIZE, vm_end - va) bytes of
\* the file from offset vm_file_offset + (va - vm_start) into the zeroed frame:
\* no byte of the file beyond the end of the region is loaded.
FaultReadsUpToRegionEnd ==
  [][\A p \in Procs, va \in MmapPages :
       (/\ last'.op = "mmap_page_fault_handler" /\ last'.p = p /\ last'.r = 1
        /\ panicked' = ""
        /\ LeafPte(p, va) = 0 /\ LeafPte(p, va)' # 0) =>
         ReadPage(p, va)' = FaultPage(FaultVma(p, va), va)
    ]_vars

\* a fault at the last page of a region, of which 100 bytes belong to the
\* region, has loaded file bytes into the part of the frame after them
FaultLoadedBeyondRegionEnd ==
  /\ panicked = "" /\ last.op = "mmap_page_fault_handler" /\ last.r = 1
  /\ \E va \in MmapPages :
        /\ LeafPte(last.p, va) # 0
        /\ vma_find(Cur, vma_list[last.p], va, 0, NVMA + 1).vma # 0
        /\ FaultVma(last.p, va).vm_end - va = 100
        /\ ReadPage(last.p, va)[1] # 0


\* the frames that are table pages of the tree of process p
TablePages(p) ==
  {f \in Frames : \E va \in UserPages, l \in {0, 1} : PathTable(p, va, l) = f * PGSIZE}

\* C24: when the mmap page-fault handler cannot install the mapping it returns an
\* error and the frame it allocated for the page is released: after the call the
\* only frames in use that were free before are table pages of the process.
FailedFaultReleasesFrame ==
  [][\A p \in Procs :
       (/\ last'.op = "mmap_page_fault_handler" /\ last'.p = p /\ last'.r = -1
        /\ panicked' = "") =>
         \A f \in Frames :
           (page_refcounts[f] = 0 /\ page_refcounts'[f] # 0) => f \in TablePages(p)'
    ]_vars

\* the handler has failed in mappages and a frame with refcount 1 is neither a
\* table page nor mapped by a leaf nor on a free list
FaultFrameLost ==
  /\ panicked = "" /\ last.op = "mmap_page_fault_handler" /\ last.r = -1
  /\ \E f \in Frames :
        /\ page_refcounts[f] = 1 /\ LeafRefs(f) = 0 /\ OnFreeLists(f) = 0
        /\ \A q \in Procs : pagetable[q] # f * PGSIZE /\ f \notin TablePages(q)


\* the pages of the range uvmunmap is called with
UnmapRange(va, npages) == {a \in UserPages : va <= a /\ a < va + npages * PGSIZE}

\* the frames that back the pages of the range in the tree of process p
UnmapFrames(p, va, npages) ==
  {f \in Frames : \E a \in UnmapRange(va, npages) :
                     LeafPte(p, a) # 0 /\ PTE2PA(LeafPte(p, a)) = f * PGSIZE}

\* C25: uvmunmap over a range whose pages all have a valid leaf clears exactly
\* those leaves and, with do_free set, lowers the refcount of each backing frame
\* by one, every entry outside the range staying as it was; with a page of the
\* range that has no valid leaf it panics.
UvmUnmapClearsRange ==
  [][\A p \in Procs, va \in UserPages, npages \in 1 .. UnmapPages :
       (last'.op = "uvmunmap" /\ last'.p = p /\ last'.a = va /\ last'.b = npages
        /\ panicked = "") =>
         IF \A a \in UnmapRange(va, npages) : LeafPte(p, a) # 0
           THEN /\ panicked' = ""
                /\ \A a \in UnmapRange(va, npages) : LeafPte(p, a)' = 0
                /\ \A a \in UserPages \ UnmapRange(va, npages) :
                     LeafPte(p, a)' = LeafPte(p, a)
                /\ \A f \in Frames :
                     page_refcounts'[f] =
                       IF last'.r = 1 /\ f \in UnmapFrames(p, va, npages)
                         THEN (page_refcounts[f] + UintMod - 1) % UintMod
                       ELSE page_refcounts[f]
         ELSE panicked' # ""
    ]_vars

\* uvmunmap has removed two pages of a process with do_free set while the other
\* process has a page table too: their frames, filled with junk, are on a free
\* list with refcount 0
UnmappedTwoPagesAndFreed ==
  /\ panicked = "" /\ last.op = "uvmunmap" /\ last.b = 2 /\ last.r = 1
  /\ last.a + 2 * PGSIZE <= sz[last.p]
  /\ LeafPte(last.p, last.a) = 0 /\ LeafPte(last.p, last.a + PGSIZE) = 0
  /\ \E q \in Procs : q # last.p /\ pagetable[q] # 0
  /\ Cardinality({f \in Frames : /\ OnFreeLists(f) = 1 /\ page_refcounts[f] = 0
                                 /\ mem[f][1] = JUNK_FREE}) >= 2


\* a valid entry without a readable, writable or executable bit: it points to
\* a table of the next level
IsPointer(e) ==
  HasBit(e, PTE_V) /\ ~HasBit(e, PTE_R) /\ ~HasBit(e, PTE_W) /\ ~HasBit(e, PTE_X)

\* a valid entry with a readable, writable or executable bit
IsLeaf(e) == HasBit(e, PTE_V) /\ ~IsPointer(e)

\* the table pages of the tree of the given height under the table page pt
RECURSIVE TreeBelow(_, _)
TreeBelow(pt, height) ==
  IF height = 0 \/ ~Managed(pt) THEN {}
  ELSE {FN(pt)} \cup
       UNION {TreeBelow(PTE2PA(mem[FN(pt)][i]), height - 1) :
                i \in {j \in Idx : IsPointer(mem[FN(pt)][j])}}

\* table page g hangs under an entry of table page f
TableParent(f, g) ==
  \E i \in Idx : IsPointer(mem[f][i]) /\ PTE2PA(mem[f][i]) = g * PGSIZE

\* where frame f is in a list of frames, 0 when it is not
IndexIn(list, f) ==
  IF \E i \in 1 .. Len(list) : list[i] = f
    THEN CHOOSE i \in 1 .. Len(list) : list[i] = f
  ELSE 0

\* C26: freewalk on a tree without leaf entries releases every table page of the
\* tree once, a lower-level page before the page that points to it and the
\* top-level page last, and touches no other frame; with a leaf entry left in
\* the tree it panics.
FreeWalkReleasesTree ==
  [][\A p \in Procs :
       (last'.op = "freewalk" /\ last'.p = p /\ panicked = "") =>
         LET tree == TreeBelow(pagetable[p], 3)
             after == FreeList(mycpu(p))'
         IN IF \A f \in tree, i \in Idx : ~IsLeaf(mem[f][i])
              THEN /\ panicked' = ""
                   /\ \A f \in tree : page_refcounts'[f] = 0 /\ OnFreeLists(f)' = 1
                   /\ \A f \in Frames \ tree :
                        /\ page_refcounts'[f] = page_refcounts[f]
                        /\ OnFreeLists(f)' = OnFreeLists(f)
                   /\ after[1] = FN(pagetable[p])
                   /\ \A f \in tree, g \in tree :
                        TableParent(f, g) => IndexIn(after, f) < IndexIn(after, g)
            ELSE panicked' # ""
    ]_vars

\* freewalk has released the four table pages of a tree built for three pages
FreeWalkReleasedFourTables ==
  /\ panicked = "" /\ last.op = "freewalk" /\ last.b = 3 * PGSIZE
  /\ pagetable[last.p] = 0
  /\ Len(FreeList(mycpu(last.p))) >= 4
  /\ FreeList(mycpu(last.p))[1] = FN(last.a)


\* the pool locks core c holds
PoolLocksHeld(c) == {d \in CPUs : klock[d] = c}

\* C27: no core holds two pool locks at once (the allocator has no global lock
\* under which it could), and every kalloc and kfree call that has started
\* returns, whatever the other cores do.
OnePoolLockAndProgress ==
  /\ [](\A c \in CPUs : Cardinality(PoolLocksHeld(c)) <= 1)
  /\ \A c \in CPUs : (kcore[c].pc # "idle") ~> (kcore[c].pc = "idle")

\* one core holds the lock of another core's pool, which it looks into because
\* its own is empty, while a second core waits for that lock in kfree
StealingWhileOwnerWaits ==
  \E c \in CPUs, d \in CPUs :
    /\ c # d /\ kcore[c].pc = "locked" /\ kcore[c].i = d /\ klock[d] = c
    /\ kcore[d].pc = "free"


\* the frames a core is about to put on its free list
FramesInKfree == {kcore[c].pa : c \in {d \in CPUs : kcore[d].pc \in {"free", "freelocked"}}}

\* C28: a frame is on at most one free list and at most once on it, and a frame
\* that kalloc returns is one no earlier kalloc call still holds: it has refcount
\* 0, neither the kernel nor a kfree in progress has it, and it leaves the lists.
FrameOnOneFreeListOnce ==
  /\ [](\A f \in Frames : OnFreeLists(f) <= 1)
  /\ [][\A c \in CPUs, f \in Frames :
          (kcore[c].pc = "locked" /\ kcore'[c].pc = "idle" /\ kcore'[c].r = f * PGSIZE) =>
            /\ f * PGSIZE \notin held
            /\ f * PGSIZE \notin FramesInKfree
            /\ page_refcounts[f] = 0
            /\ OnFreeLists(f) = 1
            /\ OnFreeLists(f)' = 0
     ]_vars

\* the exit of a process has put a frame on a free list that was on it already
FrameListedTwice ==
  /\ panicked = "" /\ last.op = "uvmfree"
  /\ \E f \in Frames : OnFreeLists(f) >= 2 /\ page_refcounts[f] = 0


\* the slots the kernel on core c has got from vma_alloc and not yet given to
\* vma_free
SlotsOf(c) ==
  {v \in Slots : <<c, v>> \in held \/ (kcore[c].pc = "vma_init" /\ kcore[c].r = v)}

\* C29: vma_alloc calls on different cores never return the same slot: no slot
\* is in use on two cores, a slot in use has its used flag set, the flag goes
\* from 0 to 1 only in the compare-and-swap of the call the slot is returned by,
\* and from 1 to 0 only in the reset of a vma_free called on that slot.
SlotHandedOutOnce ==
  /\ [](\A c \in CPUs, d \in CPUs : c # d => SlotsOf(c) \cap SlotsOf(d) = {})
  /\ [](\A c \in CPUs : \A v \in SlotsOf(c) : vmas[v].used = 1)
  /\ [][\A v \in Slots :
          /\ (vmas[v].used = 0 /\ vmas'[v].used = 1) =>
               \E c \in CPUs :
                 /\ kcore[c].pc = "vma_alloc" /\ kcore[c].i = v
                 /\ kcore'[c].pc = "vma_init" /\ kcore'[c].r = v
                 /\ \A d \in CPUs : d # c => kcore'[d] = kcore[d]
          /\ (vmas[v].used = 1 /\ vmas'[v].used = 0) =>
               \E c \in CPUs : kcore[c].pc = "vma_free" /\ kcore[c].pa = v
                               /\ kcore'[c] # kcore[c]
          /\ \A c \in CPUs :
               (kcore[c].pc = "vma_alloc" /\ kcore'[c].pc = "vma_init" /\ kcore'[c].r = v) =>
                 vmas[v].used = 0 /\ vmas'[v].used = 1
     ]_vars

\* two cores were in vma_alloc at the same slot; one has got it, the other has
\* gone on and got the next one
TwoCoresClaimedInTurn ==
  \E c \in CPUs, d \in CPUs, v \in Slots :
    /\ c # d /\ v + 1 \in Slots
    /\ panicked = ""
    /\ v \in SlotsOf(c) /\ v + 1 \in SlotsOf(d)
    /\ kcore[c].pc = "vma_init" /\ kcore[d].pc = "vma_init"
    /\ \E w \in Slots : w < v /\ vmas[w].used = 0


\* the bucket locks process p holds, and whether it holds any spinlock of the
\* cache
BucketLocksHeld(p) == {t \in Buckets : bcache.tlock[t] = p}
HoldsSpinlock(p) == bcache.lock = p \/ BucketLocksHeld(p) # {}
InBget(p) == bio[p].pc \in {"lock1", "scan", "hit", "lockg", "lock2", "lockv", "steal"}

\* C30: bget does not deadlock on the spinlocks of the cache: a process gets a
\* second bucket lock only while it holds bcache.lock, a process that waits for
\* bcache.lock or for the sleep lock of a buf holds no bucket lock, and every bget
\* call gets to the point where it has its buf and holds no spinlock, unless the
\* kernel panics.
BgetLocksInOrderAndReleases ==
  /\ [](\A p \in BProcs :
          /\ Cardinality(BucketLocksHeld(p)) >= 2 => bcache.lock = p
          /\ bio[p].pc = "lockg" => ~HoldsSpinlock(p)
          /\ bio[p].pc \in {"sleep", "hold", "dec", "unlock", "idle"} => ~HoldsSpinlock(p))
  /\ [][\A p \in BProcs :
          (BucketLocksHeld(p) # {} /\ BucketLocksHeld(p)' # BucketLocksHeld(p)
             /\ BucketLocksHeld(p) \subseteq BucketLocksHeld(p)') => bcache.lock = p
     ]_vars
  /\ \A p \in BProcs :
       InBget(p) ~> ((~InBget(p) /\ ~HoldsSpinlock(p)) \/ panicked # "")

\* a process holds bcache.lock and two bucket locks and steals a buf, while the
\* other process waits for bcache.lock with no lock in its hands
StealingWhileOtherWaits ==
  \E p \in BProcs, q \in BProcs :
    /\ p # q /\ panicked = ""
    /\ bio[p].pc = "steal" /\ bcache.lock = p /\ Cardinality(BucketLocksHeld(p)) = 2
    /\ bget_free(bcache, bcache.head[bio[p].victim]) # NoBuf
    /\ bio[q].pc = "lockg" /\ ~HoldsSpinlock(q)


\* C31: when bget has panicked with "bget: no buffers", no buf of the cache, in
\* whatever bucket, has refcnt 0.
NoBuffersOnlyWhenNoneFree ==
  panicked = "bget: no buffers" => \A b \in Bufs : bcache.buf[b].refcnt # 0

\* bget has panicked for lack of a buf while the bucket of the block it asked
\* for, whose lock it holds, has a buf with refcnt 0
BgetPanickedBesideFreeBuf ==
  /\ panicked = "bget: no buffers"
  /\ \E p \in BProcs :
       /\ bio[p].pc = "lockv" /\ bcache.lock = p /\ bcache.tlock[Bucket(p)] = p
       /\ bget_free(bcache, bcache.head[Bucket(p)]) # NoBuf


\* the descriptor at the tail holds a packet the device has not sent
TailNotCompleted == nic.tx_mbufs[nic.tdt] # 0 /\ nic.tx_mbufs[nic.tdt] \notin nic.sent

\* C32: e1000_transmit called while the descriptor at the tail holds a packet
\* the device has not completed returns -1 and leaves the ring, TDT and
\* tx_mbufs as they are; the packets accepted and not sent are never more than
\* TX_RING_SIZE; and no mbuf is freed before the device has sent it.
TransmitKeepsUnsentPackets ==
  /\ [][(last'.op = "e1000_transmit" /\ nic'.ntx # nic.ntx /\ TailNotCompleted) =>
          /\ last'.r = -1
          /\ nic'.tx_status = nic.tx_status /\ nic'.tx_addr = nic.tx_addr
          /\ nic'.tx_cmd = nic.tx_cmd /\ nic'.tx_mbufs = nic.tx_mbufs
          /\ nic'.tdt = nic.tdt /\ nic'.freed = nic.freed
     ]_vars
  /\ [](Cardinality(nic.queued \ nic.sent) <= TX_RING_SIZE)
  /\ [](nic.freed \subseteq nic.sent)

\* the device has sent nothing, the driver has accepted more packets than the
\* ring has descriptors and has freed the mbuf of the first
TransmitOverranRing ==
  /\ last.op = "e1000_transmit" /\ last.r = 0
  /\ nic.sent = {} /\ nic.tdh = 0
  /\ Cardinality(nic.queued) = TX_RING_SIZE + 1
  /\ 1 \in nic.freed /\ nic.tx_mbufs[0] = TX_RING_SIZE + 1


\* the descriptor k places after descriptor i in the receive ring
RECURSIVE RxAfter(_, _)
RxAfter(i, k) == IF k = 0 THEN i ELSE rx_next(RxAfter(i, k - 1))

\* C33: e1000_recv hands to net_rx the packets of the done descriptors that
\* follow RDT, in ring order: over all calls net_rx gets the packets the device
\* received, each once, in the order of arrival and with its length; the
\* packets not yet handed over wait in the descriptors after RDT; a turn of the
\* loop gives the descriptor after RDT a new mbuf and a cleared status and
\* moves RDT to it; and the call ends at a descriptor that is not done.
RecvHandsDonePacketsInOrder ==
  /\ [](\A j \in 1 .. Len(nic.rxlog) :
          /\ nic.rxlog[j].data = j /\ nic.rxlog[j].len = PktLen(j)
          /\ \A i \in RxIdx : nic.rx_mbufs[i] # nic.rxlog[j].mbuf
          /\ \A h \in 1 .. Len(nic.rxlog) : h # j => nic.rxlog[h].mbuf # nic.rxlog[j].mbuf)
  /\ [](panicked = "" =>
          \A k \in 1 .. (nic.npkt - Len(nic.rxlog)) :
            /\ HasBit(nic.rx_status[RxAfter(nic.rdt, k)], E1000_RXD_STAT_DD)
            /\ nic.mdata[nic.rx_mbufs[RxAfter(nic.rdt, k)]] = Len(nic.rxlog) + k)
  /\ [][(Len(nic'.rxlog) # Len(nic.rxlog) /\ panicked' = "") =>
          /\ nic.rxpc = "loop" /\ nic.rxi = nic.rdt
          /\ HasBit(nic.rx_status[rx_next(nic.rdt)], E1000_RXD_STAT_DD)
          /\ nic'.rxlog = Append(nic.rxlog, [mbuf |-> nic.rx_mbufs[rx_next(nic.rdt)],
                                              data |-> nic.mdata[nic.rx_mbufs[rx_next(nic.rdt)]],
                                              len |-> nic.rx_length[rx_next(nic.rdt)]])
          /\ nic'.rdt = rx_next(nic.rdt)
          /\ nic'.rx_status[nic'.rdt] = 0
          /\ nic'.rx_mbufs[nic'.rdt] # 0
          /\ nic'.rx_addr[nic'.rdt] = nic'.rx_mbufs[nic'.rdt]
          /\ \A i \in RxIdx : nic.rx_mbufs[i] # nic'.rx_mbufs[nic'.rdt]
          /\ nic'.mdata[nic'.rx_mbufs[nic'.rdt]] = 0
          /\ \A i \in RxIdx : i # nic'.rdt =>
               /\ nic'.rx_mbufs[i] = nic.rx_mbufs[i]
               /\ nic'.rx_status[i] = nic.rx_status[i]
     ]_vars
  /\ [][(nic.rxpc = "loop" /\ nic'.rxpc = "idle") =>
          /\ ~HasBit(nic.rx_status[rx_next(nic.rdt)], E1000_RXD_STAT_DD)
          /\ nic'.rdt = nic.rdt /\ nic'.rxlog = nic.rxlog
     ]_vars

\* one call of e1000_recv has handed over three packets, the last from the
\* descriptor the ring wraps around to, while a fourth has arrived behind them
RecvHandedThreeInOneCall ==
  /\ panicked = "" /\ nic.rxpc = "loop" /\ last.op = "e1000_recv"
  /\ Len(nic.rxlog) >= 3 /\ nic.rdt = RxAfter(last.a, 3)
  /\ \E k \in 1 .. 3 : RxAfter(last.a, k) = 0
  /\ nic.npkt > Len(nic.rxlog)

\* C34: in every interleaving of the pingpong parent and child, the steps
\* (1) write, (2) read, (3) write, (4) read happen in that order (the parent is
\* past its read only when the child is past its write), the child's line
\* "received ping" is complete on the console before the parent's line
\* "received pong" begins, and once the child exists both processes exit
PastChildWrite == pp.child \in {"exit", "zombie", "reaped"}

PastParentRead == pp.parent \in {"print_pong", "wait", "exited"} /\ pp.child # "none"

PrintedAt(pid, line, k) ==
  {i \in 1 .. Len(pp.out) : pp.out[i] = [pid |-> pid, line |-> line, piece |-> k]}

PingBeforePong ==
  /\ PastParentRead => PastChildWrite
  /\ \A i \in PrintedAt(pp.ppid, "received pong", 1) :
       \E j \in PrintedAt(pp.cpid, "received ping", PrintPieces) : j < i

PingPongInOrderAndExits ==
  /\ []PingBeforePong
  /\ (pp.child # "none") ~> (pp.parent = "exited" /\ pp.child = "reaped")

\* the parent has read its own ping and waits for a child that waits for a ping
ParentTookOwnPing ==
  /\ pp.parent = "wait" /\ pp.child = "read" /\ pp.pipe = 0
  /\ PrintedAt(pp.ppid, "received pong", PrintPieces) # {}
  /\ PrintedAt(pp.cpid, "received ping", 1) = {}

\* C35: a uvmwalkcow that returns absent for a copy-on-write leaf whose frame is
\* still shared (kcopyonwrite got no frame from kalloc) leaves the leaf and the
\* refcount of the frame as they were before the call
CowFailureChangesNothing ==
  [][\A p \in Procs, va \in UserPages :
       (/\ last'.op = "uvmwalkcow" /\ last'.p = p /\ last'.a = va /\ last'.r = 0
        /\ panicked = "" /\ panicked' = ""
        /\ HasBit(LeafPte(p, va), PTE_COW)
        /\ page_refcounts[FN(PTE2PA(LeafPte(p, va)))] > 1) =>
         /\ LeafPte(p, va)' = LeafPte(p, va)
         /\ page_refcounts'[FN(PTE2PA(LeafPte(p, va)))]
              = page_refcounts[FN(PTE2PA(LeafPte(p, va)))]
    ]_vars

\* uvmwalkcow has returned absent for a copy-on-write leaf, no frame being free,
\* and the frame of the leaf has two leaf entries and refcount 1
CowFailedAndLostReference ==
  /\ panicked = "" /\ last.op = "uvmwalkcow" /\ last.r = 0
  /\ \A c \in CPUs : kmem[c] = 0
  /\ HasBit(LeafPte(last.p, last.a), PTE_COW)
  /\ LeafRefs(FN(PTE2PA(LeafPte(last.p, last.a)))) = 2
  /\ page_refcounts[FN(PTE2PA(LeafPte(last.p, last.a)))] = 1

\* C37: every change of a buffer's refcnt is made by a process that holds the
\* lock of the bucket whose list has the buffer; so refcnt is the number of
\* references handed out by bget and not yet given back by brelse, and a buffer
\* that a process still refers to is never made the buffer of another block
BucketsOf(b) == {t \in Buckets : \E i \in 1 .. Len(bcache.head[t]) : bcache.head[t][i] = b}

Referring(b) == {p \in BProcs : bio[p].pc \in {"sleep", "hold", "dec"} /\ bio[p].b = b}

RefcntChangeHoldsBucketLock ==
  \A b \in Bufs :
    bcache'.buf[b].refcnt # bcache.buf[b].refcnt =>
      \E p \in BProcs : /\ bio'[p] # bio[p]
                        /\ \A t \in BucketsOf(b) : bcache.tlock[t] = p

RefcntCountsReferences ==
  \A b \in Bufs : bcache.buf[b].refcnt = Cardinality(Referring(b))

BufInUseNotRecycled ==
  \A b \in Bufs :
    (Referring(b) # {}) =>
      /\ bcache'.buf[b].dev = bcache.buf[b].dev
      /\ bcache'.buf[b].blockno = bcache.buf[b].blockno

RefcntUnderBucketLock ==
  /\ [][RefcntChangeHoldsBucketLock]_vars
  /\ [](panicked = "" => RefcntCountsReferences)
  /\ [][BufInUseNotRecycled]_vars

\* a process has the sleep-lock of a buffer that bget has just handed, for
\* another block, to a second process, the refcnt having come down to 0 by a
\* brelse that holds no spinlock
BufRecycledWhileHeld ==
  \E p \in BProcs, q \in BProcs :
    /\ p # q /\ panicked = ""
    /\ bio[p].pc = "hold" /\ bio[q].pc = "sleep" /\ bio[q].b = bio[p].b
    /\ bio[q].blockno # bio[p].blockno
    /\ bcache.buf[bio[p].b].blockno = bio[q].blockno
    /\ bcache.buf[bio[p].b].locked = p

\* C36: when two address spaces that share a copy-on-write frame resolve it at
\* the same time on two cores, from the refcount decrement of kcopyonwrite to
\* the end of its copy the source frame is not written, freed or handed out
\* again, and the finished copy has the contents the frame had at the decrement
CowCopying(p) == kcore[mycpu(p)].pc \in {"cow_alloc", "cow_copy"}

CowSourceUntouched ==
  \A p \in Procs, f \in Frames :
    (CowCopying(p) /\ kcore[mycpu(p)].pa = f * PGSIZE) =>
      /\ mem'[f] = mem[f]
      /\ OnFreeLists(f)' = 0

CowCopyIsSharedContents ==
  \A p \in Procs, g \in Frames :
    (/\ kcore[mycpu(p)].pc = "cow_copy" /\ kcore'[mycpu(p)].pc = "cow_remap"
     /\ kcore[mycpu(p)].r = g * PGSIZE) =>
      mem'[g] = CowFault(p)[3]

CowCopyOfSharedFrame ==
  /\ [][CowSourceUntouched]_vars
  /\ [][CowCopyIsSharedContents]_vars

\* kcopyonwrite has finished a copy that is neither the page as it was at the
\* decrement nor the page as the other owner has left it: the other owner stored
\* to the frame while the copy was going on
CowCopyTorn ==
  \E p \in Procs :
    /\ panicked = "" /\ kcore[mycpu(p)].pc = "cow_remap"
    /\ kcore[mycpu(p)].r # kcore[mycpu(p)].pa
    /\ mem[FN(kcore[mycpu(p)].r)] # CowFault(p)[3]
    /\ mem[FN(kcore[mycpu(p)].r)] # mem[FN(kcore[mycpu(p)].pa)]

====
